---- MODULE Spec2Model ----
(***************************************************************************)
(* Podcast Matchmaker: candidate collection, similarity scoring, ranking   *)
(* and recommendation assembly (backend services/recommendations,          *)
(* utils/similarity, utils/text-processing, utils/search-util).            *)
(*                                                                         *)
(* Texts are TLA+ strings.  Scores are exact rationals <<num, den>> in     *)
(* lowest terms with den > 0 (IEEE rounding is not modelled).              *)
(***************************************************************************)
EXTENDS Integers, Sequences, FiniteSets, TLC

(***************************************************************************)
(* Generic helpers                                                         *)
(***************************************************************************)
\* F applied to the value of x, x being evaluated once
Let1(x, F(_)) == CHOOSE r \in {F(v) : v \in {x}} : TRUE

\* Op(... Op(Op(base, 1), 2) ..., n), evaluated by halving the range
FoldIdx(Op(_, _), base, n) ==
  LET RECURSIVE Go(_, _, _)
      Go(acc, lo, hi) ==
        IF lo >= hi THEN (IF lo = hi THEN Op(acc, lo) ELSE acc)
        ELSE Let1((lo + hi) \div 2, LAMBDA mid :
               Let1(Go(acc, lo, mid), LAMBDA a : Go(a, mid + 1, hi)))
  IN  Go(base, 1, n)

\* Array.prototype.reduce: Op(... Op(Op(base, seq[1]), seq[2]) ..., seq[n])
FoldLeft(Op(_, _), base, seq) ==
  Let1(seq, LAMBDA s : FoldIdx(LAMBDA acc, i : Op(acc, s[i]), base, Len(s)))

CharAt(s, i) == SubSeq(s, i, i)

\* the same over the characters of a string
FoldChars(Op(_, _), base, str) ==
  Let1(str, LAMBDA s : FoldIdx(LAMBDA acc, i : Op(acc, CharAt(s, i)), base, Len(s)))

RECURSIVE GCD(_, _)
GCD(a, b) == IF b = 0 THEN a ELSE GCD(b, a % b)

Abs(n) == IF n < 0 THEN -n ELSE n

Rat(n, d) ==
  Let1(GCD(Abs(n), Abs(d)) * (IF d < 0 THEN -1 ELSE 1), LAMBDA g : <<n \div g, d \div g>>)

RZero == <<0, 1>>
RAdd(x, y) == Rat(x[1] * y[2] + y[1] * x[2], x[2] * y[2])
RMul(x, y) == Rat(x[1] * y[1], x[2] * y[2])
RDiv(x, y) == Rat(x[1] * y[2], x[2] * y[1])
RLess(x, y) == x[1] * y[2] < y[1] * x[2]

\* Math.round(x * 100) for a rational x >= 0
RoundPercent(x) == (200 * x[1] + x[2]) \div (2 * x[2])

\* Math.sqrt on the perfect squares the modelled vectors produce
Sqrt(n) == CHOOSE r \in 0..n : r * r = n

Range(s) == {s[i] : i \in DOMAIN s}

SeqSum(s) == FoldLeft(LAMBDA acc, e : acc + e, 0, s)

\* Array.prototype.includes
Includes(s, x) == \E i \in DOMAIN s : s[i] = x

\* the sequence s without the later repetitions of an element
Distinct(s) ==
  FoldLeft(LAMBDA acc, e : IF Includes(acc, e) THEN acc ELSE Append(acc, e), <<>>, s)

\* Array.prototype.slice(0, n)
Slice(s, n) == SubSeq(s, 1, IF Len(s) < n THEN Len(s) ELSE n)

\* Array.prototype.filter
FilterSeq(s, Keep(_)) ==
  FoldLeft(LAMBDA acc, e : IF Keep(e) THEN Append(acc, e) ELSE acc, <<>>, s)

(***************************************************************************)
(* JavaScript values                                                       *)
(***************************************************************************)
\* a field that is absent from an object
Undefined == "\\undefined"

\* a value that is falsy in a || chain
Falsy(v) == v \in {Undefined, ""}

\* a || b || c
Or3(a, b, c) == IF ~Falsy(a) THEN a ELSE IF ~Falsy(b) THEN b ELSE c

(***************************************************************************)
(* utils/text-processing                                                   *)
(***************************************************************************)
UpperChars == "ABCDEFGHIJKLMNOPQRSTUVWXYZ"
LowerChars == "abcdefghijklmnopqrstuvwxyz"
DigitChars == "0123456789"

CharsOf(chars) == {CharAt(chars, i) : i \in 1..Len(chars)}

UpperSet == CharsOf(UpperChars)
DigitSet == CharsOf(DigitChars)

\* the regular expression class \w
WordSet == CharsOf(LowerChars) \cup UpperSet \cup DigitSet \cup {"_"}

\* the regular expression class \s
SpaceSet == {" ", "\t", "\n", "\r"}

LowerMap ==
  [c \in UpperSet |->
     CharAt(LowerChars, CHOOSE i \in 1..Len(UpperChars) : CharAt(UpperChars, i) = c)]

LowerOf(c) == IF c \in UpperSet THEN LowerMap[c] ELSE c

IsWordChar(c) == c \in WordSet

IsSpaceChar(c) == c \in SpaceSet

toLowerCase(str) == FoldChars(LAMBDA acc, c : acc \o LowerOf(c), "", str)

\* .replace(/<[^>]*>/g, ' '): a "<" with a ">" somewhere after it starts a match
\* that ends at the first such ">"; upTo is the index the current match ends at
StripTags(str) ==
  Let1(str, LAMBDA s :
    FoldIdx(LAMBDA acc, i :
              IF i <= acc.upTo THEN acc
              ELSE IF CharAt(s, i) = "<" /\ \E j \in (i + 1)..Len(s) : CharAt(s, j) = ">"
              THEN [out |-> acc.out \o " ",
                    upTo |-> CHOOSE j \in (i + 1)..Len(s) :
                               /\ CharAt(s, j) = ">"
                               /\ \A k \in (i + 1)..(j - 1) : CharAt(s, k) # ">"]
              ELSE [out |-> acc.out \o CharAt(s, i), upTo |-> acc.upTo],
            [out |-> "", upTo |-> 0], Len(s)).out)

\* .replace(/[^\w\s]/g, ' ')
StripSpecial(str) ==
  FoldChars(LAMBDA acc, c : acc \o (IF IsWordChar(c) \/ IsSpaceChar(c) THEN c ELSE " "), "", str)

\* .replace(/\s+/g, ' '), on a text whose only whitespace may be of any kind: a
\* run of whitespace becomes one space
CollapseSpace(str) ==
  Let1(str, LAMBDA s :
    FoldIdx(LAMBDA acc, i :
              IF ~IsSpaceChar(CharAt(s, i)) THEN acc \o CharAt(s, i)
              ELSE IF i > 1 /\ IsSpaceChar(CharAt(s, i - 1)) THEN acc
              ELSE acc \o " ",
            "", Len(s)))

\* .trim()
Trim(str) ==
  Let1(str, LAMBDA s :
    Let1({i \in 1..Len(s) : ~IsSpaceChar(CharAt(s, i))}, LAMBDA idx :
      IF idx = {} THEN ""
      ELSE SubSeq(s, CHOOSE i \in idx : \A j \in idx : i <= j,
                     CHOOSE i \in idx : \A j \in idx : j <= i)))

preprocessText(text) ==
  IF Falsy(text) THEN ""
  ELSE Trim(CollapseSpace(StripSpecial(StripTags(toLowerCase(text)))))

\* String.prototype.split(' '): the pieces between single spaces, empty pieces kept
Split(str) ==
  FoldChars(LAMBDA acc, c : IF c = " " THEN Append(acc, "")
                            ELSE [acc EXCEPT ![Len(acc)] = @ \o c],
            <<"">>, str)

\* natural.WordTokenizer.tokenize: the maximal runs of word characters
tokenize(str) == FilterSeq(Split(CollapseSpace(StripSpecial(str))), LAMBDA t : Len(t) > 0)

\* Array.prototype.join(' ')
Join(toks) ==
  FoldLeft(LAMBDA acc, t : IF acc.first THEN [first |-> FALSE, out |-> t]
                           ELSE [first |-> FALSE, out |-> acc.out \o " " \o t],
           [first |-> TRUE, out |-> ""], toks).out

\* the words of the stopword package's English list that have more than 3 letters
\* (shorter words are dropped by length anyway)
StopWords ==
  {"about", "after", "also", "been", "from", "have", "into", "more", "over", "some",
   "such", "than", "that", "their", "them", "then", "there", "these", "they", "this",
   "very", "what", "when", "which", "will", "with", "would", "your"}

commonWords ==
  {"the", "and", "a", "an", "in", "on", "at", "to", "for", "of", "is", "are", "was", "were",
   "this", "that", "these", "those", "it", "they", "we", "you", "he", "she", "his", "her",
   "them", "their", "our", "your", "its", "has", "have", "had", "been", "would", "could",
   "should", "will", "can", "may", "might", "with", "from", "by", "about", "all", "but", "not",
   "what", "when", "where", "who", "how", "why", "which", "podcast", "show", "episode", "episodes",
   "season", "seasons", "listen", "listening", "host", "hosts", "guest", "guests", "talk", "talks"}

\* the length up to which filterTokens drops a token
MinTokenLen == 3

\* !isNaN(token) on a token of word characters: a decimal number (the empty
\* token converts to 0)
IsNumeric(t) == \A i \in 1..Len(t) : CharAt(t, i) \in DigitSet

removeStopwords(tokens) == FilterSeq(tokens, LAMBDA t : t \notin StopWords)

\* filterTokens keeping the tokens of three characters
KeepTokenOfThree(t) == Len(t) >= MinTokenLen /\ t \notin commonWords /\ ~IsNumeric(t)

KeepToken(t) == Len(t) > MinTokenLen /\ t \notin commonWords /\ ~IsNumeric(t)

filterTokens(tokens) == FilterSeq(removeStopwords(tokens), KeepToken)

\* the number of occurrences of t in tokens
Count(tokens, t) == Cardinality({i \in DOMAIN tokens : tokens[i] = t})

\* Object.entries(wordFreq): the distinct words in first-seen order with their counts
WordFreq(toks) ==
  Let1(toks, LAMBDA tokens :
    Let1(Distinct(tokens), LAMBDA ws :
      [i \in DOMAIN ws |-> [term |-> ws[i], score |-> Count(tokens, ws[i])]]))

\* e placed after the elements of sorted whose score is not smaller
InsertByScore(sorted, e) ==
  Let1(Cardinality({i \in DOMAIN sorted : sorted[i].score >= e.score}), LAMBDA k :
    SubSeq(sorted, 1, k) \o <<e>> \o SubSeq(sorted, k + 1, Len(sorted)))

\* Array.prototype.sort((a, b) => b.score - a.score): stable, descending by count
SortByScoreDesc(s) == FoldLeft(InsertByScore, <<>>, s)

\* the minimum length of a term extractTopics keeps is above this
MinTermLen == 2

\* natural.TfIdf with one document: every term's idf is the same positive factor
\* 1 + ln(1 / 2), so a term's weight is its count in units of that factor
ComputeTopics(text, numTopics) ==
  IF Falsy(text) \/ Len(Trim(text)) = 0 THEN <<>>
  ELSE Let1(filterTokens(tokenize(preprocessText(text))), LAMBDA significantTokens :
         Let1(SortByScoreDesc(WordFreq(tokenize(Join(significantTokens)))), LAMBDA listTerms :
           Slice(FilterSeq(listTerms, LAMBDA e : Len(e.term) > MinTermLen), numTopics)))

ComputeKeywords(text, limit) ==
  IF Falsy(text) THEN <<>>
  ELSE Let1(Slice(SortByScoreDesc(WordFreq(filterTokens(Split(preprocessText(text))))), limit),
            LAMBDA sorted : [i \in DOMAIN sorted |-> sorted[i].term])

\* the descriptions of the model's podcasts, the joined descriptions of its lists
\* of favourites, and the limits their topics and
\* keywords are taken with: extractTopics and extractKeywords are evaluated once
\* for each of them
KnownTexts ==
  {"Ancient history and empire stories", "Modern science experiments explained",
   "Science stories", "Empire wars", "Random chatter", "Science experiments and history",
   "Ancient history and empire stories Modern science experiments explained",
   "Modern science experiments explained Science experiments and history",
   "Robots robots robots and science experiments",
   "Modern science experiments explained Robots robots robots and science experiments"}

KnownLimits == {10, 15}

KnownTopics == [t \in KnownTexts |-> [n \in KnownLimits |-> ComputeTopics(t, n)]]

KnownKeywords == [t \in KnownTexts |-> [n \in KnownLimits |-> ComputeKeywords(t, n)]]

extractTopics(text, numTopics) ==
  IF text \in KnownTexts /\ numTopics \in KnownLimits THEN KnownTopics[text][numTopics]
  ELSE ComputeTopics(text, numTopics)

extractKeywords(text, limit) ==
  IF text \in KnownTexts /\ limit \in KnownLimits THEN KnownKeywords[text][limit]
  ELSE ComputeKeywords(text, limit)

(***************************************************************************)
(* Podcast objects                                                         *)
(***************************************************************************)
\* a podcast object; a field the object lacks is Undefined, genre_ids is a
\* sequence (empty when the object has none, one number with genre_ids_iterable
\* FALSE when the field holds a number instead of an array); isNull marks a null
\* element of a list
MkPodcast(id, t, to, d, do, p, po, g) ==
  [id |-> id, title |-> t, title_original |-> to, description |-> d,
   description_original |-> do, publisher |-> p, publisher_original |-> po,
   genre_ids |-> g, genre_ids_iterable |-> TRUE, isNull |-> FALSE]

NullPodcast ==
  [id |-> Undefined, title |-> Undefined, title_original |-> Undefined,
   description |-> Undefined, description_original |-> Undefined,
   publisher |-> Undefined, publisher_original |-> Undefined,
   genre_ids |-> <<>>, genre_ids_iterable |-> TRUE, isNull |-> TRUE]

\* an array argument that may be missing (null or undefined)
Present(items) == [present |-> TRUE, items |-> items]
Missing == [present |-> FALSE, items |-> <<>>]

\* !arr?.length
NoLength(arr) == ~arr.present \/ Len(arr.items) = 0

(***************************************************************************)
(* utils/text-processing: generateMatchReason                              *)
(***************************************************************************)
\* the default limit of extractKeywords
KeywordLimit == 10

\* the most shared keywords a reason names
ReasonKeywords == 3

ThematicPhrase(topicSimilarity) ==
  IF RLess(<<2, 5>>, topicSimilarity) THEN "Strong thematic similarity in content. "
  ELSE IF RLess(<<1, 5>>, topicSimilarity) THEN "Some thematic overlap in content. "
  ELSE ""

ClosingPhrase(matchScore) ==
  IF RLess(<<17, 20>>, matchScore) THEN "Very strong content match."
  ELSE IF RLess(<<7, 10>>, matchScore) THEN "Strong content match."
  ELSE IF RLess(<<1, 2>>, matchScore) THEN "Moderate content similarity."
  ELSE "Some content similarities."

\* the reason string, kept as its parts: the text is similarTo, genre, the keyword
\* sentence, thematic, closing in this order, or the fallback
\* "Match score: <percent>%. ..." when the matched favourite has no title
generateMatchReason(candidate, mostSimilarPodcast, matchScore, topicSimilarity) ==
  IF mostSimilarPodcast.isNull \/ Falsy(mostSimilarPodcast.title)
  THEN [fallback |-> TRUE, percent |-> RoundPercent(matchScore), similarTo |-> "",
        genre |-> "", keywords |-> <<>>, thematic |-> "",
        closing |-> "This podcast matches your listening preferences."]
  ELSE [fallback |-> FALSE, percent |-> 0,
        similarTo |-> mostSimilarPodcast.title,
        genre |-> IF \E g \in Range(candidate.genre_ids) :
                       g \in Range(mostSimilarPodcast.genre_ids)
                  THEN "Shares the same genre. " ELSE "",
        keywords |->
          Let1(extractKeywords(IF Falsy(mostSimilarPodcast.description) THEN ""
                               ELSE mostSimilarPodcast.description, KeywordLimit),
               LAMBDA favoriteKeywords :
                 Slice(FilterSeq(extractKeywords(IF Falsy(candidate.description) THEN ""
                                                 ELSE candidate.description, KeywordLimit),
                                 LAMBDA k : Includes(favoriteKeywords, k)),
                       ReasonKeywords)),
        thematic |-> ThematicPhrase(topicSimilarity),
        closing |-> ClosingPhrase(matchScore)]

(***************************************************************************)
(* utils/similarity                                                        *)
(***************************************************************************)
\* WEIGHTS.TOPIC_MATCH = 1.5
TOPIC_MATCH == <<3, 2>>

\* the length of the zero vector returned when no embedding is available
DefaultDim == 384

\* the number of leading characters of the text that form the cache key
CacheKeyLen == 100

\* the number of leading characters of the text sent to the provider
MaxInputLen == 8000

ZeroVector == [i \in 1..DefaultDim |-> 0]

\* String.prototype.substring(0, n) / slice(0, n)
Prefix(text, n) == SubSeq(text, 1, IF Len(text) < n THEN Len(text) ELSE n)

\* vec1.reduce((sum, a, i) => sum + a * vec2[i], 0)
Dot(a, b) == SeqSum([i \in DOMAIN a |-> a[i] * b[i]])

\* vec.reduce((sum, a) => sum + a * a, 0): an all-zero vector is recognised
\* without summing its entries
SumSq(a) == IF \A i \in DOMAIN a : a[i] = 0 THEN 0 ELSE Dot(a, a)

calculateCosineSimilarity(vec1, vec2) ==
  IF Len(vec1) = 0 \/ Len(vec2) = 0 \/ Len(vec1) # Len(vec2) THEN RZero
  ELSE Let1(Sqrt(SumSq(vec1)) * Sqrt(SumSq(vec2)), LAMBDA magnitudes :
         IF magnitudes = 0 THEN RZero ELSE Rat(Dot(vec1, vec2), magnitudes))

\* topicMapB.has(term)
HasTerm(topics, term) == \E j \in DOMAIN topics : topics[j].term = term

\* topicMapB.get(term): a Map keeps the last score set for a term
ScoreOf(topics, term) ==
  topics[CHOOSE j \in DOMAIN topics :
           /\ topics[j].term = term
           /\ \A k \in DOMAIN topics : topics[k].term = term => k <= j].score

\* Math.max in the place of Math.min
Max2(a, b) == IF b < a THEN a ELSE b

\* Math.min
Min2(a, b) == IF b < a THEN b ELSE a

calculateTopicSimilarity(topicsA, topicsB) ==
  IF Len(topicsA) = 0 \/ Len(topicsB) = 0 THEN RZero
  ELSE Let1(Distinct([i \in DOMAIN topicsA |-> topicsA[i].term]), LAMBDA terms :
         Let1(SeqSum([i \in DOMAIN terms |-> ScoreOf(topicsA, terms[i])]),
              LAMBDA totalPossibleScore :
                IF totalPossibleScore > 0
                THEN Rat(SeqSum([i \in DOMAIN terms |->
                                   IF HasTerm(topicsB, terms[i])
                                   THEN Min2(ScoreOf(topicsA, terms[i]), ScoreOf(topicsB, terms[i]))
                                   ELSE 0]),
                         totalPossibleScore)
                ELSE RZero))

createWeightedText(podcast) ==
  IF podcast.isNull THEN ""
  ELSE Let1(Or3(podcast.description, podcast.description_original, ""), LAMBDA description :
         Let1(Or3(podcast.title, podcast.title_original, ""), LAMBDA title :
           title \o " " \o title \o " " \o description \o " " \o description \o " "
           \o description \o " " \o Or3(podcast.publisher, podcast.publisher_original, "")))

(***************************************************************************)
(* utils/similarity: generateEmbedding and the embedding provider          *)
(***************************************************************************)
\* the vectors the provider's model produces
ModelVectors == << <<1, 0>>, <<0, 1>>, <<3, 4>> >>

\* the provider's model: a fixed function from the text sent to a vector
ProviderVector(inputs) == ModelVectors[(Len(inputs) % Len(ModelVectors)) + 1]

\* what a provider call can do: resolve with a vector, with an empty array, with
\* something that is not an array, or throw
ProviderOutcomes == {"vector", "emptyArray", "notArray", "throw"}

ProviderResponse(outcome, inputs) ==
  [kind |-> outcome, value |-> IF outcome = "vector" THEN ProviderVector(inputs) ELSE <<>>]

\* the cache key taken to be the whole text
CacheKeyWholeText(text) == text

CacheKey(text) == Prefix(text, CacheKeyLen)

\* generateEmbedding up to its await: TRUE when a provider request is issued
EmbedNeedsRequest(text, cache) == ~Falsy(text) /\ CacheKey(text) \notin DOMAIN cache

\* generateEmbedding when it returns without a provider request
EmbedImmediate(text, cache) == IF Falsy(text) THEN ZeroVector ELSE cache[CacheKey(text)]

\* generateEmbedding raising on every failed or malformed response
EmbedOnResponseStrict(response) ==
  IF response.kind \in {"vector", "emptyArray"} /\ Len(response.value) > 0
  THEN [raised |-> FALSE, value |-> response.value, store |-> TRUE]
  ELSE [raised |-> TRUE, value |-> <<>>, store |-> FALSE]

\* generateEmbedding after its await, with the catch removed
EmbedOnResponseNoCatch(response) ==
  IF response.kind = "throw" THEN [raised |-> TRUE, value |-> <<>>, store |-> FALSE]
  ELSE IF response.kind \in {"vector", "emptyArray"} /\ Len(response.value) > 0
       THEN [raised |-> FALSE, value |-> response.value, store |-> TRUE]
       ELSE [raised |-> FALSE, value |-> ZeroVector, store |-> FALSE]

\* generateEmbedding storing whatever it returns, the fallback included
EmbedOnResponseStoreAll(response) ==
  IF response.kind \in {"vector", "emptyArray"} /\ Len(response.value) > 0
  THEN [raised |-> FALSE, value |-> response.value, store |-> TRUE]
  ELSE [raised |-> FALSE, value |-> ZeroVector, store |-> TRUE]

\* generateEmbedding after its await: what it returns, whether it raises and
\* whether it stores the vector in the cache
EmbedOnResponse(response) ==
  IF response.kind = "throw" THEN [raised |-> FALSE, value |-> ZeroVector, store |-> FALSE]
  ELSE IF response.kind \in {"vector", "emptyArray"} /\ Len(response.value) > 0
       THEN [raised |-> FALSE, value |-> response.value, store |-> TRUE]
       ELSE [raised |-> FALSE, value |-> ZeroVector, store |-> FALSE]

\* a cache that keeps the vector it already holds under a key
CacheSetIfAbsent(cache, key, value) ==
  IF key \in DOMAIN cache THEN cache
  ELSE [k \in DOMAIN cache \cup {key} |-> IF k = key THEN value ELSE cache[k]]

CacheSet(cache, key, value) ==
  [k \in DOMAIN cache \cup {key} |-> IF k = key THEN value ELSE cache[k]]

(***************************************************************************)
(* services/recommendations: rankCandidates                                *)
(***************************************************************************)
TopicLimit == 15

\* weightedText || 'podcast content'
EmbedText(podcast) ==
  Let1(createWeightedText(podcast), LAMBDA weightedText :
    IF Falsy(weightedText) THEN "podcast content" ELSE weightedText)

DescriptionOf(podcast) == Or3(podcast.description, podcast.description_original, "")

PendingFavorite == [done |-> FALSE, embedding |-> <<>>, topics |-> <<>>]

FavoriteDone(podcast, embedding) ==
  [done |-> TRUE, embedding |-> embedding,
   topics |-> extractTopics(DescriptionOf(podcast), TopicLimit)]

\* a candidate's scoring record; idx is its position in the candidates input and
\* embedding the callback's candidateEmbedding
PendingCandidate ==
  [done |-> FALSE, idx |-> 0, embedding |-> <<>>, similarityScore |-> RZero,
   mostSimilarIdx |-> 0, semanticScore |-> RZero, topicScore |-> RZero, matchScore |-> RZero]

\* semanticScore * 0.7 + topicScore * WEIGHTS.TOPIC_MATCH * 0.3
CombinedScore(semanticScore, topicScore) ==
  RAdd(RMul(semanticScore, <<7, 10>>), RMul(RMul(topicScore, TOPIC_MATCH), <<3, 10>>))

Similarity(fav, i, candidateEmbedding, candidateTopics) ==
  Let1(calculateCosineSimilarity(fav.embedding, candidateEmbedding), LAMBDA semanticScore :
    Let1(calculateTopicSimilarity(fav.topics, candidateTopics), LAMBDA topicScore :
      [favIdx |-> i, semanticScore |-> semanticScore, topicScore |-> topicScore,
       score |-> CombinedScore(semanticScore, topicScore)]))

\* favoriteEmbeddings.map(fav => ...)
Similarities(favE, candidateEmbedding, candidateTopics) ==
  Let1(candidateTopics, LAMBDA topics :
    [i \in DOMAIN favE |-> Similarity(favE[i], i, candidateEmbedding, topics)])

\* similarities.reduce((sum, item) => sum + item.score, 0)
SumScores(sims) == FoldLeft(LAMBDA sum, item : RAdd(sum, item.score), RZero, sims)

\* the reduce taking a later pairing of equal score: item.score >= max.score
MostSimilarLast(sims) ==
  FoldLeft(LAMBDA max, item : IF RLess(item.score, max.score) THEN max ELSE item, sims[1], sims)

\* similarities.reduce((max, item) => item.score > max.score ? item : max, similarities[0])
MostSimilar(sims) ==
  FoldLeft(LAMBDA max, item : IF RLess(max.score, item.score) THEN item ELSE max, sims[1], sims)

\* the aggregate taken from the best pairing instead of the mean
BestSimilarity(sims) == MostSimilar(sims).score

AvgSimilarity(sims) == RDiv(SumScores(sims), <<Len(sims), 1>>)

\* the candidate's record pointing at the first candidate whatever its position
CandidateDoneAtFirst(favE, candidate, j, embedding) ==
  Let1(Similarities(favE, embedding, extractTopics(DescriptionOf(candidate), TopicLimit)),
       LAMBDA sims :
         Let1(MostSimilar(sims), LAMBDA mostSimilar :
           [done |-> TRUE, idx |-> 1, embedding |-> embedding,
            similarityScore |-> AvgSimilarity(sims),
            mostSimilarIdx |-> mostSimilar.favIdx, semanticScore |-> mostSimilar.semanticScore,
            topicScore |-> mostSimilar.topicScore, matchScore |-> mostSimilar.score]))

CandidateDone(favE, candidate, j, embedding) ==
  Let1(Similarities(favE, embedding, extractTopics(DescriptionOf(candidate), TopicLimit)),
       LAMBDA sims :
         Let1(MostSimilar(sims), LAMBDA mostSimilar :
           [done |-> TRUE, idx |-> j, embedding |-> embedding,
            similarityScore |-> AvgSimilarity(sims),
            mostSimilarIdx |-> mostSimilar.favIdx, semanticScore |-> mostSimilar.semanticScore,
            topicScore |-> mostSimilar.topicScore, matchScore |-> mostSimilar.score]))

\* a sort that puts e before the elements of equal similarityScore
InsertRankedUnstable(sorted, e) ==
  Let1(Cardinality({i \in DOMAIN sorted : RLess(e.similarityScore, sorted[i].similarityScore)}),
       LAMBDA k : SubSeq(sorted, 1, k) \o <<e>> \o SubSeq(sorted, k + 1, Len(sorted)))

\* e placed after the elements of sorted whose similarityScore is not smaller
InsertRanked(sorted, e) ==
  Let1(Cardinality({i \in DOMAIN sorted : ~RLess(sorted[i].similarityScore, e.similarityScore)}),
       LAMBDA k : SubSeq(sorted, 1, k) \o <<e>> \o SubSeq(sorted, k + 1, Len(sorted)))

\* rankCandidates returning the records unsorted
Unsorted(s) == s

\* rankedCandidates.sort((a, b) => b.similarityScore - a.similarityScore): stable
SortBySimilarity(s) == FoldLeft(InsertRanked, <<>>, s)

(***************************************************************************)
(* services/recommendations: generateRecommendations                       *)
(***************************************************************************)
MaxRecommendations == 10

\* new Set(genre_ids) inside generateMatchReason throws on a value that is not iterable
ReasonThrows(candidate, mostSimilarPodcast) ==
  /\ ~(mostSimilarPodcast.isNull \/ Falsy(mostSimilarPodcast.title))
  /\ (~candidate.genre_ids_iterable \/ ~mostSimilarPodcast.genre_ids_iterable)

\* the recommendation with candidate.matchScore given to generateMatchReason
RecommendationByMatchScore(e, favs, cands) ==
  [podcast |-> cands[e.idx], candIdx |-> e.idx,
   similarity_score |-> e.matchScore, semantic_score |-> e.semanticScore,
   topic_score |-> e.topicScore,
   reason |-> generateMatchReason(cands[e.idx], favs[e.mostSimilarIdx],
                                  e.matchScore, e.topicScore),
   most_similar_to |-> favs[e.mostSimilarIdx].id]

Recommendation(e, favs, cands) ==
  [podcast |-> cands[e.idx], candIdx |-> e.idx,
   similarity_score |-> e.matchScore, semantic_score |-> e.semanticScore,
   topic_score |-> e.topicScore,
   reason |-> generateMatchReason(cands[e.idx], favs[e.mostSimilarIdx],
                                  e.semanticScore, e.topicScore),
   most_similar_to |-> favs[e.mostSimilarIdx].id]

\* !candidate.podcast || !candidate.mostSimilarPodcast
Unresolved(e, favs, cands) == cands[e.idx].isNull \/ favs[e.mostSimilarIdx].isNull

\* recommendations.slice(0, 10) without the slice
TopAll(recs) == recs

TopRecommendations(recs) == Slice(recs, MaxRecommendations)

\* the map / filter / slice of generateRecommendations over the ranked list
Assemble(sorted, favs, cands) ==
  Let1(FilterSeq(sorted, LAMBDA e : ~Unresolved(e, favs, cands)), LAMBDA kept :
    IF \E i \in DOMAIN kept : ReasonThrows(cands[kept[i].idx], favs[kept[i].mostSimilarIdx])
    THEN [threw |-> TRUE, value |-> <<>>]
    ELSE [threw |-> FALSE,
          value |-> TopRecommendations([i \in DOMAIN kept |->
                                          Recommendation(kept[i], favs, cands)])])

\* the guard of generateRecommendations written without optional chaining
GuardNoOptionalChaining(favs, cands) ==
  IF ~favs.present \/ ~cands.present THEN "throw"
  ELSE IF Len(favs.items) = 0 \/ Len(cands.items) = 0 THEN "empty" ELSE "proceed"

\* if (!favorites?.length || !candidates?.length) return []
RecommendationsGuard(favs, cands) ==
  IF NoLength(favs) \/ NoLength(cands) THEN "empty" ELSE "proceed"

\* if (!favoritePodcasts?.length || !candidatePodcasts?.length) return []
RankGuard(favs, cands) ==
  IF NoLength(favs) \/ NoLength(cands) THEN "empty" ELSE "proceed"

\* generateRecommendations without its try / catch
SettleNoCatch(threw, value) == [raised |-> threw, value |-> IF threw THEN <<>> ELSE value]

\* how generateRecommendations settles: a failure inside the try is caught and
\* the empty list returned
Settle(threw, value) == [raised |-> FALSE, value |-> IF threw THEN <<>> ELSE value]

VARIABLES
  pc,                 \* where generateRecommendations is: "idle", "favs", "cands", "done"
  favorites,          \* its favorites argument
  candidates,         \* its candidates argument
  favoriteEmbeddings, \* rankCandidates: the favourites' embeddings and topics
  rankedCandidates,   \* rankCandidates: the candidates' scoring records, in input order
  ranked,             \* what rankCandidates returned
  result,             \* what generateRecommendations returned
  raised,             \* generateRecommendations' promise rejected
  inflight,           \* provider requests awaiting their response
  embeddingCache,     \* the module's embeddingCache Map
  providerCalls,      \* provider requests issued so far
  failures,           \* provider responses that were not a vector so far
  lastEmbed,          \* the generateEmbedding call that completed last
  cpc,                \* where getCandidatePodcasts is: "idle", "fetch", "done"
  favoritePodcasts,   \* its favoritePodcasts argument
  plan,               \* the catalog calls it makes, in order
  callLog,            \* the calls issued so far with what the catalog answered
  collected,          \* its candidates array
  uniqueCandidates,   \* what it returned
  collectRaised,      \* its promise rejected
  call,               \* the synchronous function called last, with its argument
  ret,                \* what that call returned, or that it raised
  embedCalls,         \* the direct calls of generateEmbedding, in the order they started
  hpc,                \* where the POST /api/recommendations handler is
  responses,          \* the responses it sent
  forwarded,          \* the number of errors it passed to next
  recommendCalls,     \* the number of its calls of generateRecommendations
  getRequest,         \* the GET request given to the podcast router
  handledBy,          \* the handler of the podcast router that took it
  catalogRequest,     \* the request that handler made to the catalog
  getOutcome,         \* how the request ended: "json", "error", "notFound"
  pageFavorites,      \* RecommendationsPage: the number of favourites loaded
  loading,            \* its loading flag
  processingStage,    \* its progress message
  pageError,          \* its error message, NoError for null
  pageRecommendations, \* the number of recommendations it shows
  posting,            \* its request to the recommendations API is pending
  timers              \* the interval timers it created: [active, messageIndex]

rankVars == <<pc, favorites, candidates, favoriteEmbeddings, rankedCandidates, ranked, result,
              raised, inflight, embeddingCache, providerCalls, failures, lastEmbed>>

collectVars == <<cpc, favoritePodcasts, plan, callLog, collected, uniqueCandidates,
                 collectRaised>>

callVars == <<call, ret>>

embedVars == <<embedCalls>>

routeVars == <<hpc, responses, forwarded, recommendCalls>>

\* the variables of the routes around the services
podcastVars == <<getRequest, handledBy, catalogRequest, getOutcome>>

pageVars ==
  <<pageFavorites, loading, processingStage, pageError, pageRecommendations, posting, timers>>

shellVars == <<routeVars, podcastVars, pageVars>>

vars == <<rankVars, collectVars, callVars, embedVars, shellVars>>

NoEmbed == [kind |-> "none", returned |-> <<>>, raised |-> FALSE]

InitRank ==
  /\ pc = "idle"
  /\ favorites = Missing
  /\ candidates = Missing
  /\ favoriteEmbeddings = <<>>
  /\ rankedCandidates = <<>>
  /\ ranked = <<>>
  /\ result = <<>>
  /\ raised = FALSE
  /\ inflight = {}
  /\ embeddingCache = <<>>
  /\ providerCalls = 0
  /\ failures = 0
  /\ lastEmbed = NoEmbed

Request(phase, i, text) ==
  [phase |-> phase, idx |-> i, key |-> CacheKey(text), inputs |-> Prefix(text, MaxInputLen)]

\* the elements of a list whose callback reaches generateEmbedding and misses the cache
Misses(items, cache) ==
  {k \in DOMAIN items : ~items[k].isNull /\ EmbedNeedsRequest(EmbedText(items[k]), cache)}

\* the requests the callbacks of one Promise.all issue
Requests(phase, items, cache) ==
  {Request(phase, i, EmbedText(items[i])) : i \in Misses(items, cache)}

HasNull(items) == \E i \in DOMAIN items : items[i].isNull

\* a Promise.all that settles with the first of its promises
AnyDone(entries) == \E i \in DOMAIN entries : entries[i].done

AllDone(entries) == \A i \in DOMAIN entries : entries[i].done

\* where a call stands after a step: its position, the candidates' records, the
\* requests the step issued, what rankCandidates returned, whether an exception
\* reached generateRecommendations' try, and the list it is about to return
Stand(p, rc, reqs, sorted, threw, value) ==
  [pc |-> p, rc |-> rc, reqs |-> reqs, ranked |-> sorted, threw |-> threw, value |-> value]

\* rankCandidates from the sort on, and the rest of generateRecommendations
AfterCandidates(rc, favs, cands) ==
  Let1(SortBySimilarity(rc), LAMBDA sorted :
    Let1(Assemble(sorted, favs, cands), LAMBDA out :
      Stand("done", rc, {}, sorted, out.threw, out.value)))

\* rankCandidates once every favourite has its embedding: the candidates' callbacks
\* run up to their await
AfterFavorites(favE, favs, cands, cache) ==
  Let1([j \in DOMAIN cands |->
          IF ~cands[j].isNull /\ j \notin Misses(cands, cache)
          THEN CandidateDone(favE, cands[j], j, EmbedImmediate(EmbedText(cands[j]), cache))
          ELSE PendingCandidate],
       LAMBDA rc :
         IF HasNull(cands)
         THEN Stand("done", rc, Requests("cand", cands, cache), <<>>, TRUE, <<>>)
         ELSE IF AllDone(rc) THEN AfterCandidates(rc, favs, cands)
         ELSE Stand("cands", rc, Requests("cand", cands, cache), <<>>, FALSE, <<>>))

\* rankCandidates up to its first await: the favourites' callbacks run up to theirs
RankStart(favs, cands, cache) ==
  Let1([i \in DOMAIN favs |->
          IF ~favs[i].isNull /\ i \notin Misses(favs, cache)
          THEN FavoriteDone(favs[i], EmbedImmediate(EmbedText(favs[i]), cache))
          ELSE PendingFavorite],
       LAMBDA favE :
         [favE |-> favE,
          reqs |-> Requests("fav", favs, cache),
          next |-> IF HasNull(favs) THEN Stand("done", <<>>, {}, <<>>, TRUE, <<>>)
                   ELSE IF AllDone(favE) THEN AfterFavorites(favE, favs, cands, cache)
                   ELSE Stand("favs", <<>>, {}, <<>>, FALSE, <<>>)])

\* the variables of the call set from where it stands
Continue(n) ==
  /\ pc' = n.pc
  /\ rankedCandidates' = n.rc
  /\ ranked' = n.ranked
  /\ \E s \in {Settle(n.threw, n.value)} :
       /\ result' = s.value
       /\ raised' = s.raised

\* generateRecommendations(favs, cands) up to its first await
GenerateRecommendations(favs, cands) ==
  /\ pc = "idle"
  /\ favorites' = favs
  /\ candidates' = cands
  /\ UNCHANGED <<embeddingCache, failures, lastEmbed>>
  /\ \E guard \in {RecommendationsGuard(favs, cands)} :
       IF guard = "throw"
       THEN /\ pc' = "done"
            /\ raised' = TRUE
            /\ UNCHANGED <<favoriteEmbeddings, rankedCandidates, ranked, result, inflight,
                           providerCalls>>
       ELSE IF guard = "empty" \/ RankGuard(favs, cands) = "empty"
       THEN /\ pc' = "done"
            /\ UNCHANGED <<favoriteEmbeddings, rankedCandidates, ranked, result, raised,
                           inflight, providerCalls>>
       ELSE \E r \in {RankStart(favs.items, cands.items, embeddingCache)} :
              /\ favoriteEmbeddings' = r.favE
              /\ inflight' = inflight \cup r.reqs \cup r.next.reqs
              /\ providerCalls' = providerCalls + Cardinality(r.reqs \cup r.next.reqs)
              /\ Continue(r.next)

\* the most provider failures one run of the model sees, where failures are bounded
MaxFailures == 2

\* the provider answers one request; the awaiting generateEmbedding call and the
\* callbacks waiting on it run to their next await or to the end
ProviderRespond(req, outcome) ==
  /\ req \in inflight
  /\ failures' = IF outcome = "vector" THEN failures ELSE failures + 1
  /\ UNCHANGED <<favorites, candidates>>
  /\ \E e \in {EmbedOnResponse(ProviderResponse(outcome, req.inputs))} :
     \E cache \in {IF e.store THEN CacheSet(embeddingCache, req.key, e.value)
                   ELSE embeddingCache} :
       /\ embeddingCache' = cache
       /\ lastEmbed' = [kind |-> outcome, returned |-> e.value, raised |-> e.raised]
       /\ IF pc \in {"favs", "cands"} /\ e.raised
          THEN \* the rejection reaches generateRecommendations' try
               /\ inflight' = inflight \ {req}
               /\ UNCHANGED <<favoriteEmbeddings, providerCalls>>
               /\ Continue(Stand("done", rankedCandidates, {}, <<>>, TRUE, <<>>))
          ELSE IF pc = "favs" /\ req.phase = "fav"
          THEN \E favE \in {[favoriteEmbeddings EXCEPT
                               ![req.idx] = FavoriteDone(favorites.items[req.idx], e.value)]} :
                 /\ favoriteEmbeddings' = favE
                 /\ IF AllDone(favE)
                    THEN \E n \in {AfterFavorites(favE, favorites.items, candidates.items,
                                                  cache)} :
                           /\ inflight' = (inflight \ {req}) \cup n.reqs
                           /\ providerCalls' = providerCalls + Cardinality(n.reqs)
                           /\ Continue(n)
                    ELSE /\ inflight' = inflight \ {req}
                         /\ UNCHANGED <<pc, rankedCandidates, ranked, result, raised,
                                        providerCalls>>
          ELSE IF pc = "cands" /\ req.phase = "cand"
          THEN \E rc \in {[rankedCandidates EXCEPT
                             ![req.idx] = CandidateDone(favoriteEmbeddings,
                                                        candidates.items[req.idx],
                                                        req.idx, e.value)]} :
                 /\ inflight' = inflight \ {req}
                 /\ UNCHANGED <<favoriteEmbeddings, providerCalls>>
                 /\ IF AllDone(rc)
                    THEN \E n \in {AfterCandidates(rc, favorites.items, candidates.items)} :
                           Continue(n)
                    ELSE /\ rankedCandidates' = rc
                         /\ UNCHANGED <<pc, ranked, result, raised>>
          ELSE \* the call has already settled: only the cache is updated
               /\ inflight' = inflight \ {req}
               /\ UNCHANGED <<pc, favoriteEmbeddings, rankedCandidates, ranked, result,
                              raised, providerCalls>>

(***************************************************************************)
(* The podcasts and argument lists the model runs on                       *)
(***************************************************************************)
FavA ==
  MkPodcast("fA", "History Hour", "History Hour", "Ancient history and empire stories",
            "Ancient history and empire stories", "Past Media", "Past Media", <<1>>)

FavB ==
  MkPodcast("fB", "Science Lab", "Science Lab", "Modern science experiments explained",
            "Modern science experiments explained", "Labs", "Labs", <<2>>)

\* a favourite with no title at all
FavNoTitle ==
  MkPodcast("fN", "", Undefined, "Science stories", Undefined, "Labs", Undefined, <<2>>)

\* catalog objects: best_podcasts items carry title / description / publisher,
\* search items the *_original fields
CandX ==
  MkPodcast("cX", "Empire Tales", Undefined, "Empire wars", Undefined, "Saga", Undefined, <<1>>)

CandY ==
  MkPodcast("cY", Undefined, "Mixed Bag", Undefined, "Random chatter", Undefined, "Studio", <<3>>)

CandZ ==
  MkPodcast("cZ", Undefined, "Lab Notes", Undefined, "Science experiments and history",
            Undefined, "Uni", <<2, 1>>)

\* a catalog object whose genre_ids is a number
CandBadGenres == [CandY EXCEPT !.id = "cG", !.genre_ids = <<3>>, !.genre_ids_iterable = FALSE]

FavoriteInputs ==
  {Missing, Present(<<>>), Present(<<FavA>>), Present(<<FavA, FavB>>),
   Present(<<FavNoTitle, FavA>>), Present(<<FavB, NullPodcast>>)}

\* the candidates the short lists are drawn from
CandidatePool == {CandX, CandY, CandBadGenres, NullPodcast}

\* the longest list of candidates drawn freely from the pool
MaxCandidates == 2

\* the length of the one long list of candidates
LongLen == 11

LongCycle == <<CandX, CandY, CandZ>>

LongList == [i \in 1..LongLen |-> LongCycle[((i - 1) % Len(LongCycle)) + 1]]

SeqsUpTo(S, n) == UNION {[1..k -> S] : k \in 0..n}


(***************************************************************************)
(* utils/search-util                                                       *)
(***************************************************************************)
\* Array.prototype.flatMap over a sequence of sequences
Flatten(seqs) == FoldLeft(LAMBDA acc, s : acc \o s, <<>>, seqs)

\* p.publisher || p.publisher_original, .filter(Boolean)
PublishersOf(podcasts) ==
  FilterSeq([i \in DOMAIN podcasts |->
               Or3(podcasts[i].publisher, podcasts[i].publisher_original, "")],
            LAMBDA p : ~Falsy(p))

\* the most themes extractThemesFromPodcasts returns
MaxThemes == 3

\* the default limit of generateDiverseQueries' topics and keywords
QueryTermLimit == 10

\* a keyword must be longer than this to become a query
MinKeywordLen == 3

\* the themes without the filter on the count: every topic is a theme
extractThemesOfAnyCount(podcasts) ==
  Let1(Flatten([i \in DOMAIN podcasts |->
                  Let1(extractTopics(DescriptionOf(podcasts[i]), QueryTermLimit),
                       LAMBDA topics : [k \in DOMAIN topics |-> topics[k].term])]),
       LAMBDA allTopics :
         Let1(Slice(SortByScoreDesc(WordFreq(allTopics)), MaxThemes),
              LAMBDA top : [k \in DOMAIN top |-> top[k].term]))

extractThemesFromPodcasts(podcasts) ==
  Let1(Flatten([i \in DOMAIN podcasts |->
                  Let1(extractTopics(DescriptionOf(podcasts[i]), QueryTermLimit),
                       LAMBDA topics : [k \in DOMAIN topics |-> topics[k].term])]),
       LAMBDA allTopics :
         Let1(Slice(SortByScoreDesc(FilterSeq(WordFreq(allTopics), LAMBDA e : e.score > 1)),
                    MaxThemes),
              LAMBDA top : [k \in DOMAIN top |-> top[k].term]))

\* a search query; the fields other than q are the same in every query
Query(q) ==
  [q |-> q, type |-> "podcast", sort_by_date |-> 0, page_size |-> 20,
   only_in |-> "description", safe_mode |-> 0]

\* generateDiverseQueries returning allQueries as pushed
KeepAllQueries(queries) == queries

\* queries.filter by JSON.stringify(query) not seen before
removeDuplicateQueries(queries) == Distinct(queries)

\* the publishers' names in lower case, each as one entry: no split(/\s+/)
WholePublisherNames(podcasts) == {toLowerCase(p) : p \in Range(PublishersOf(podcasts))}

\* new Set(... .flatMap(p => p.toLowerCase().split(/\s+/))): the words of the
\* publishers' names, in lower case
PublishersToFilter(podcasts) ==
  UNION {Range(Split(CollapseSpace(toLowerCase(p)))) : p \in Range(PublishersOf(podcasts))}

\* a null element raises inside the try, and the catch returns []
generateDiverseQueries(podcasts) ==
  IF Len(podcasts) = 0 \/ HasNull(podcasts) THEN <<>>
  ELSE
    Let1(PublishersToFilter(podcasts), LAMBDA publishersToFilter :
    Let1(extractThemesFromPodcasts(podcasts), LAMBDA themes :
    Let1(FilterSeq(extractKeywords(Join([i \in DOMAIN podcasts |-> DescriptionOf(podcasts[i])]),
                                   QueryTermLimit),
                   LAMBDA kw : /\ Len(kw) > MinKeywordLen
                               /\ toLowerCase(kw) \notin publishersToFilter),
         LAMBDA keywords :
           removeDuplicateQueries(
             (IF Len(themes) > 0 THEN <<Query(themes[1])>> ELSE <<>>)
             \o (IF Len(keywords) > 0 THEN <<Query(keywords[1])>> ELSE <<>>)
             \o (IF Len(themes) > 1 THEN <<Query(themes[2])>> ELSE <<>>)))))

(***************************************************************************)
(* services/recommendations: getCandidatePodcasts                          *)
(***************************************************************************)
\* genres.slice(0, 2)
MaxGenres == 2

\* the page_size of a best_podcasts call
GenrePageSize == 20

\* the genre ids with their repetitions: the flatMap without the Set
GenresWithRepeats(favs) == Flatten([i \in DOMAIN favs |-> favs[i].genre_ids])

\* [...new Set(favoritePodcasts.flatMap(p => p.genre_ids || []))]
GenresOf(favs) == Distinct(Flatten([i \in DOMAIN favs |-> favs[i].genre_ids]))

\* favoritePodcasts.map(p => p.id)
FavoriteIds(favs) == [i \in DOMAIN favs |-> favs[i].id]

\* the catalog calls of one collection: best_podcasts for the first genres, then
\* one search for each generated query
PlannedCalls(favs) ==
  Let1(Slice(GenresOf(favs), MaxGenres), LAMBDA genresToProcess :
    Let1(generateDiverseQueries(favs), LAMBDA diverseQueries :
      [i \in DOMAIN genresToProcess |->
         [endpoint |-> "best_podcasts", param |-> genresToProcess[i],
          page_size |-> GenrePageSize]]
      \o [i \in DOMAIN diverseQueries |->
            [endpoint |-> "search", param |-> diverseQueries[i].q,
             page_size |-> diverseQueries[i].page_size]]))

\* what the catalog does with a call: throws, or answers with no data, with data
\* that lacks the list of the endpoint, or with data holding the list
Throws == [kind |-> "throw", results |-> <<>>]
NoData == [kind |-> "noData", results |-> <<>>]
NoList == [kind |-> "noList", results |-> <<>>]
Page(results) == [kind |-> "data", results |-> results]

\* fetchSafely without its try / catch
FetchNoCatch(response, cands) ==
  IF response.kind = "throw" THEN [raised |-> TRUE, candidates |-> cands]
  ELSE IF response.kind = "data" /\ Len(response.results) > 0
       THEN [raised |-> FALSE, candidates |-> cands \o response.results]
       ELSE [raised |-> FALSE, candidates |-> cands]

\* fetchSafely after its await: whether it raises and the candidates array after it
FetchSafely(response, cands) ==
  IF response.kind = "throw" THEN [raised |-> FALSE, candidates |-> cands]
  ELSE IF response.kind = "data" /\ Len(response.results) > 0
       THEN [raised |-> FALSE, candidates |-> cands \o response.results]
       ELSE [raised |-> FALSE, candidates |-> cands]

\* the final loop without the favoriteIds test
DedupeKeepFavorites(cands, favoriteIds) ==
  FoldLeft(LAMBDA unique, podcast :
             IF ~\E k \in DOMAIN unique : unique[k].id = podcast.id
             THEN Append(unique, podcast) ELSE unique,
           <<>>, cands)

\* the final loop without the seenIds test
ExcludeFavoritesOnly(cands, favoriteIds) ==
  FilterSeq(cands, LAMBDA podcast : ~Includes(favoriteIds, podcast.id))

\* the final loop: seenIds holds the ids of the podcasts pushed so far
UniqueCandidates(cands, favoriteIds) ==
  FoldLeft(LAMBDA unique, podcast :
             IF /\ ~\E k \in DOMAIN unique : unique[k].id = podcast.id
                /\ ~Includes(favoriteIds, podcast.id)
             THEN Append(unique, podcast) ELSE unique,
           <<>>, cands)

InitCollect ==
  /\ cpc = "idle"
  /\ favoritePodcasts = Missing
  /\ plan = <<>>
  /\ callLog = <<>>
  /\ collected = <<>>
  /\ uniqueCandidates = <<>>
  /\ collectRaised = FALSE

\* getCandidatePodcasts(favs, apiClient) up to its first await
GetCandidatePodcasts(favs) ==
  /\ cpc = "idle"
  /\ favoritePodcasts' = favs
  /\ UNCHANGED <<callLog, collected>>
  /\ IF NoLength(favs)
     THEN /\ cpc' = "done"
          /\ UNCHANGED <<plan, uniqueCandidates, collectRaised>>
     ELSE IF HasNull(favs.items)
     THEN \* p.genre_ids on a null element
          /\ cpc' = "done"
          /\ collectRaised' = TRUE
          /\ UNCHANGED <<plan, uniqueCandidates>>
     ELSE \E calls \in {PlannedCalls(favs.items)} :
            /\ plan' = calls
            /\ collectRaised' = FALSE
            /\ IF Len(calls) = 0
               THEN /\ cpc' = "done"
                    /\ uniqueCandidates' = UniqueCandidates(<<>>, FavoriteIds(favs.items))
               ELSE /\ cpc' = "fetch"
                    /\ UNCHANGED uniqueCandidates

\* the catalog answers the call in flight; fetchSafely finishes and
\* getCandidatePodcasts runs to its next call or to its end
CatalogRespond(response) ==
  /\ cpc = "fetch"
  /\ UNCHANGED <<favoritePodcasts, plan>>
  /\ callLog' = Append(callLog, [call |-> plan[Len(callLog) + 1], response |-> response])
  /\ \E f \in {FetchSafely(response, collected)} :
       /\ collected' = f.candidates
       /\ collectRaised' = f.raised
       /\ IF f.raised
          THEN /\ cpc' = "done"
               /\ UNCHANGED uniqueCandidates
          ELSE IF Len(callLog) + 1 < Len(plan)
          THEN /\ cpc' = "fetch"
               /\ UNCHANGED uniqueCandidates
          ELSE /\ cpc' = "done"
               /\ uniqueCandidates' =
                    UniqueCandidates(f.candidates, FavoriteIds(favoritePodcasts.items))

\* a favourite whose description shares topics with FavB's
FavC ==
  MkPodcast("fC", "Lab Notes", "Lab Notes", "Science experiments and history",
            "Science experiments and history", "Uni", "Uni", <<2, 1, 3>>)

CollectInputs ==
  {Missing, Present(<<>>), Present(<<FavA>>), Present(<<FavA, FavB>>), Present(<<FavB, FavC>>),
   Present(<<FavA, NullPodcast>>)}

\* catalog objects with the ids of FavA and of CandX
CatalogFavA ==
  MkPodcast("fA", Undefined, "History Hour", Undefined, "Ancient history and empire stories",
            Undefined, "Past Media", <<1>>)

CatalogX ==
  MkPodcast("cX", Undefined, "Empire Tales", Undefined, "Empire wars", Undefined, "Saga", <<1>>)

\* the result lists the catalog answers with
CatalogPages ==
  {<<>>, <<CandX, CandY>>, <<CatalogFavA, CatalogX>>, <<CandY, CandY>>, <<CandZ, CatalogFavA>>}

CatalogResponses == {Throws, NoData, NoList} \cup {Page(p) : p \in CatalogPages}
CandidateInputs == {Missing} \cup {Present(c) : c \in SeqsUpTo(CandidatePool, MaxCandidates)}

\* the long list, and the same list without its last element
LongInputs == {Present(LongList), Present(SubSeq(LongList, 1, LongLen - 1))}

(***************************************************************************)
(* services/recommendations: standardizeFavorites                          *)
(***************************************************************************)
\* one standardized podcast: the spread keeps every other field
Standardized(podcast, titleDefault, descriptionDefault, publisherDefault) ==
  [podcast EXCEPT
     !.title = Or3(podcast.title, podcast.title_original, titleDefault),
     !.description = Or3(podcast.description, podcast.description_original, descriptionDefault),
     !.publisher = Or3(podcast.publisher, podcast.publisher_original, publisherDefault)]

\* the result of a synchronous call
Returns(value) == [raised |-> FALSE, value |-> value]
Raises == [raised |-> TRUE, value |-> <<>>]

\* standardizeFavorites with empty strings in place of the default strings
standardizeWithoutDefaults(favs) ==
  IF NoLength(favs) THEN Returns(<<>>)
  ELSE IF HasNull(favs.items) THEN Raises
  ELSE Returns([i \in DOMAIN favs.items |-> Standardized(favs.items[i], "", "", "")])

\* standardizeFavorites setting the *_original fields from the plain fields
standardizeOverwritingOriginals(favs) ==
  IF NoLength(favs) THEN Returns(<<>>)
  ELSE IF HasNull(favs.items) THEN Raises
  ELSE Returns([i \in DOMAIN favs.items |->
                  [Standardized(favs.items[i], "Unknown Podcast", "No description available",
                                "Unknown Publisher")
                     EXCEPT !.title_original = favs.items[i].title,
                            !.description_original = favs.items[i].description,
                            !.publisher_original = favs.items[i].publisher]])

\* Missing stands for every argument that is not an array; podcast.title on a
\* null element raises
standardizeFavorites(favs) ==
  IF NoLength(favs) THEN Returns(<<>>)
  ELSE IF HasNull(favs.items) THEN Raises
  ELSE Returns([i \in DOMAIN favs.items |->
                  Standardized(favs.items[i], "Unknown Podcast", "No description available",
                               "Unknown Publisher")])

NoCall == [fn |-> "none", arg |-> <<>>, again |-> FALSE]

InitCall == call = NoCall /\ ret = Returns(<<>>)

\* standardizeFavorites(favs)
StandardizeFavorites(favs) ==
  /\ call' = [fn |-> "standardizeFavorites", arg |-> favs, again |-> FALSE]
  /\ ret' = standardizeFavorites(favs)

\* standardizeFavorites applied to what it returned
StandardizeAgain ==
  /\ call.fn = "standardizeFavorites" /\ ~call.again /\ ~ret.raised
  /\ call' = [fn |-> "standardizeFavorites", arg |-> Present(ret.value), again |-> TRUE]
  /\ ret' = standardizeFavorites(Present(ret.value))

\* the values a text field and its alternate take: absent, empty, blank, a text
FieldValues(text) == {Undefined, "", " ", text}

\* the object {}
EmptyObject ==
  [NullPodcast EXCEPT !.isNull = FALSE]

\* raw favourites: every combination of present, empty and absent text fields
RawPodcasts ==
  {MkPodcast("p1", t, to, d, do, p, po, <<1>>) :
     t \in FieldValues("T"), to \in FieldValues("TO"),
     d \in {Undefined, "D"}, do \in {Undefined, "", "DO"},
     p \in {Undefined, "P"}, po \in {Undefined, "", "PO"}} \cup {EmptyObject}

StandardizeInputs ==
  {Missing, Present(<<>>), Present(<<NullPodcast>>), Present(<<EmptyObject, FavA>>)}
  \cup {Present(<<o>>) : o \in RawPodcasts}

(***************************************************************************)
(* Calls of the utilities                                                  *)
(***************************************************************************)
\* generateDiverseQueries(favs); Missing stands for null and undefined
GenerateDiverseQueries(favs) ==
  /\ call' = [fn |-> "generateDiverseQueries", arg |-> favs, again |-> FALSE]
  /\ ret' = Returns(IF favs.present THEN generateDiverseQueries(favs.items) ELSE <<>>)

\* what a division of 0 by 0 or an operation on a value that is not a number gives
NaN == <<0, 0>>

\* an argument of calculateCosineSimilarity: an array of entries, nonNumeric the
\* positions whose entry does not convert to a number, or something else
Arr(items, nonNumeric) == [isArray |-> TRUE, items |-> items, nonNumeric |-> nonNumeric]
NotArray == [isArray |-> FALSE, items |-> <<>>, nonNumeric |-> {}]

\* Math.sqrt(vec.reduce(...)) === 0: only for numbers that are all 0
ZeroMagnitude(vec) == vec.nonNumeric = {} /\ SumSq(vec.items) = 0

\* calculateCosineSimilarity on arbitrary arguments: a product with an entry that
\* is not a number is NaN, NaN === 0 is false, and no operation raises
CosineOfArguments(vec1, vec2) ==
  IF \/ ~vec1.isArray \/ ~vec2.isArray
     \/ Len(vec1.items) = 0 \/ Len(vec2.items) = 0
     \/ Len(vec1.items) # Len(vec2.items)
  THEN RZero
  ELSE IF ZeroMagnitude(vec1) \/ ZeroMagnitude(vec2) THEN RZero
  ELSE IF vec1.nonNumeric # {} \/ vec2.nonNumeric # {} THEN NaN
  ELSE calculateCosineSimilarity(vec1.items, vec2.items)

\* calculateCosineSimilarity(vec1, vec2)
CalculateCosineSimilarity(vec1, vec2) ==
  /\ call' = [fn |-> "calculateCosineSimilarity", arg |-> <<vec1, vec2>>, again |-> FALSE]
  /\ ret' = Returns(CosineOfArguments(vec1, vec2))

\* extractKeywords(text, limit)
ExtractKeywords(text, limit) ==
  /\ call' = [fn |-> "extractKeywords", arg |-> [text |-> text, limit |-> limit],
               again |-> FALSE]
  /\ ret' = Returns(extractKeywords(text, limit))

\* calculateTopicSimilarity(topicsA, topicsB); Missing stands for null and undefined
CalculateTopicSimilarity(topicsA, topicsB) ==
  /\ call' = [fn |-> "calculateTopicSimilarity", arg |-> <<topicsA, topicsB>>, again |-> FALSE]
  /\ ret' = Returns(IF ~topicsA.present \/ ~topicsB.present THEN RZero
                    ELSE calculateTopicSimilarity(topicsA.items, topicsB.items))

\* the topics the lists are made of: a term and a score that is not negative
TopicTerms == {"history", "science", "empire"}
TopicScores == 0..2
TopicEntries == {[term |-> t, score |-> n] : t \in TopicTerms, n \in TopicScores}

\* the longest list of topics given to calculateTopicSimilarity
MaxTopics == 2

\* lists of topics as extractTopics gives them: no term twice
TopicLists ==
  {topics \in UNION {[1..n -> TopicEntries] : n \in 0..MaxTopics} :
     \A i, j \in DOMAIN topics : i # j => topics[i].term # topics[j].term}

TopicInputs == {Missing} \cup {Present(topics) : topics \in TopicLists}

VectorPool == {<<>>, <<0>>, <<1>>, <<0, 0>>, <<1, 0>>, <<0, 1>>, <<3, 4>>}

CosineInputs ==
  {NotArray} \cup UNION {{Arr(v, n) : n \in SUBSET DOMAIN v} : v \in VectorPool}

KeywordTexts ==
  {"", "the the the cat cat dog", "the the the cats cats dogs", "Dogs, dogs & <b>cats</b>!",
   "Random chatter"}

\* the largest limit given to extractKeywords
MaxLimit == 3

\* a favourite repeating a word no other favourite uses, and sharing topics with FavB
FavD ==
  MkPodcast("fD", "Robot Talk", "Robot Talk", "Robots robots robots and science experiments",
            "Robots robots robots and science experiments", "Mech", "Mech", <<4>>)

\* a favourite whose description uses a word of its publisher's name
FavE ==
  MkPodcast("fE", "Media Watch", "Media Watch", "Media critics discuss history",
            "Media critics discuss history", "Past Media", "Past Media", <<5>>)

QueryPool == {FavA, FavB, FavC, FavD, FavE, NullPodcast}

\* the longest list of favourites given to generateDiverseQueries
MaxQueryFavorites == 2

QueryInputs == {Missing} \cup {Present(f) : f \in SeqsUpTo(QueryPool, MaxQueryFavorites)}

(***************************************************************************)
(* Calls of generateEmbedding                                              *)
(***************************************************************************)
\* a call of generateEmbedding: its text, the number of calls that had returned
\* when it started, its place among the calls that returned (0 while it awaits
\* the provider), what it returned, whether it made a provider request and
\* whether it stored the response in the cache
EmbedCall(text, started) ==
  [text |-> text, started |-> started, order |-> 0, value |-> <<>>,
   requested |-> FALSE, stored |-> FALSE]

ReturnedCalls(calls) == Cardinality({k \in DOMAIN calls : calls[k].order > 0})

InitEmbed == embedCalls = <<>>

\* the most calls of generateEmbedding in one run
MaxEmbedCalls == 3

\* generateEmbedding(text) up to its await, or to its return when it does not
\* reach the await
GenerateEmbedding(text) ==
  /\ Len(embedCalls) < MaxEmbedCalls
  /\ UNCHANGED <<pc, favorites, candidates, favoriteEmbeddings, rankedCandidates, ranked,
                 result, raised, embeddingCache, failures, lastEmbed>>
  /\ \E n \in {ReturnedCalls(embedCalls)} :
       IF EmbedNeedsRequest(text, embeddingCache)
       THEN /\ embedCalls' = Append(embedCalls, [EmbedCall(text, n) EXCEPT !.requested = TRUE])
            /\ inflight' = inflight \cup {Request("embed", Len(embedCalls) + 1, text)}
            /\ providerCalls' = providerCalls + 1
       ELSE /\ embedCalls' =
                 Append(embedCalls,
                        [EmbedCall(text, n) EXCEPT
                           !.order = n + 1, !.value = EmbedImmediate(text, embeddingCache)])
            /\ UNCHANGED <<inflight, providerCalls>>

\* the provider answers the request of a direct call, which returns
EmbeddingReturn(req, outcome) ==
  /\ req \in inflight
  /\ req.phase = "embed"
  /\ ProviderRespond(req, outcome)
  /\ embedCalls' =
       [embedCalls EXCEPT
          ![req.idx] = [@ EXCEPT !.order = ReturnedCalls(embedCalls) + 1,
                                 !.value = lastEmbed'.returned,
                                 !.stored = req.key \in DOMAIN embeddingCache'
                                            /\ lastEmbed'.kind = "vector"]]

\* a title long enough for the weighted text of every podcast carrying it to
\* start with the same 100 characters
LongTitle == "The Extraordinarily Long Running Weekly Conversation Hour"

\* podcasts of that title whose weighted texts differ after character 100
LongA == MkPodcast("lA", LongTitle, Undefined, "Science stories", Undefined, "Labs", Undefined, <<2>>)
LongB == MkPodcast("lB", LongTitle, Undefined, "Empire wars", Undefined, "Studio", Undefined, <<1>>)

\* the texts given to generateEmbedding
EmbedTexts == {EmbedText(p) : p \in {LongA, LongB, CandX}} \cup {""}

(***************************************************************************)
(* routes/recommendation.routes: POST /api/recommendations                 *)
(***************************************************************************)
InitRoute ==
  /\ hpc = "idle"
  /\ responses = <<>>
  /\ forwarded = 0
  /\ recommendCalls = 0

\* res.status(status).json({ message, recommendations }), res.json({ recommendations })
RespondWith(status, recommendations) ==
  responses' = Append(responses, [status |-> status, recommendations |-> recommendations])

\* the handler going on to generateRecommendations whatever the candidates are
NeverNoCandidates(cands) == FALSE

\* !candidates || candidates.length === 0
NoCandidates(cands) == Len(cands) = 0

\* the handler from the return of generateRecommendations on
HandlerAfterRecommend ==
  /\ hpc' = "done"
  /\ IF raised' THEN /\ forwarded' = forwarded + 1
                     /\ UNCHANGED responses
     ELSE /\ UNCHANGED forwarded
          /\ IF Len(result') = 0 THEN RespondWith(404, <<>>) ELSE RespondWith(200, result')

\* the handler from the return of getCandidatePodcasts on, up to its next await
HandlerAfterCollect ==
  IF collectRaised'
  THEN /\ hpc' = "done"
       /\ forwarded' = forwarded + 1
       /\ UNCHANGED <<responses, recommendCalls, rankVars>>
  ELSE IF NoCandidates(uniqueCandidates')
  THEN /\ hpc' = "done"
       /\ RespondWith(404, <<>>)
       /\ UNCHANGED <<forwarded, recommendCalls, rankVars>>
  ELSE /\ recommendCalls' = recommendCalls + 1
       /\ GenerateRecommendations(favoritePodcasts', Present(uniqueCandidates'))
       /\ IF pc' = "done" THEN HandlerAfterRecommend
          ELSE /\ hpc' = "recommend"
               /\ UNCHANGED <<responses, forwarded>>

\* the handler on a request whose body holds favorites, up to its first await;
\* Missing stands for every value that is not an array
PostRecommendations(favs) ==
  /\ hpc = "idle"
  /\ IF NoLength(favs)
     THEN /\ hpc' = "done"
          /\ RespondWith(400, <<>>)
          /\ UNCHANGED <<forwarded, recommendCalls, rankVars, collectVars>>
     ELSE \E standardizedFavorites \in {standardizeFavorites(favs)} :
            IF standardizedFavorites.raised
            THEN /\ hpc' = "done"
                 /\ forwarded' = forwarded + 1
                 /\ UNCHANGED <<responses, recommendCalls, rankVars, collectVars>>
            ELSE /\ GetCandidatePodcasts(Present(standardizedFavorites.value))
                 /\ IF cpc' = "done" THEN HandlerAfterCollect
                    ELSE /\ hpc' = "collect"
                         /\ UNCHANGED <<responses, forwarded, recommendCalls, rankVars>>

\* the catalog answers a call of the handler's getCandidatePodcasts
HandlerCatalogRespond(response) ==
  /\ hpc = "collect"
  /\ CatalogRespond(response)
  /\ IF cpc' = "done" THEN HandlerAfterCollect
     ELSE UNCHANGED <<routeVars, rankVars>>

\* the provider answers a request of the handler's generateRecommendations
HandlerProviderRespond(req, outcome) ==
  /\ ProviderRespond(req, outcome)
  /\ IF hpc = "recommend" /\ pc' = "done" THEN /\ HandlerAfterRecommend
                                               /\ UNCHANGED recommendCalls
     ELSE UNCHANGED routeVars

\* the favorites of the request bodies
RouteBodies ==
  {Missing, Present(<<>>), Present(<<FavA>>), Present(<<FavB, FavC>>),
   Present(<<FavA, NullPodcast>>), Present(<<EmptyObject>>)}

\* what the catalog answers the handler's calls with
RouteResponses == {Throws, NoData, Page(<<>>), Page(<<CandX, CandY>>)}

(***************************************************************************)
(* routes/podcast.routes: the podcast router                               *)
(***************************************************************************)
\* a query parameter that the request does not carry
NoParam == ""

\* the routes of the router in the order of their registration
PodcastRoutes ==
  << [path |-> "/search", handler |-> "search"],
     [path |-> "/:id", handler |-> "details"],
     [path |-> "/genres", handler |-> "genres"],
     [path |-> "/trending", handler |-> "trending"] >>

\* the path without the one trailing slash that non-strict routing allows
Unslashed(path) ==
  IF Len(path) > 1 /\ CharAt(path, Len(path)) = "/" THEN SubSeq(path, 1, Len(path) - 1)
  ELSE path

\* a route path matches a request path: "/:name" matches one non-empty segment,
\* any other route path matches itself
RouteMatches(routePath, path) ==
  Let1(Unslashed(path), LAMBDA p :
    IF Len(routePath) > 1 /\ SubSeq(routePath, 1, 2) = "/:"
    THEN /\ Len(p) > 1 /\ CharAt(p, 1) = "/"
         /\ \A i \in 2..Len(p) : CharAt(p, i) # "/"
    ELSE p = routePath)

\* the first route registered that matches, 0 when none does
Dispatch(routes, path) ==
  IF \E i \in DOMAIN routes : RouteMatches(routes[i].path, path)
  THEN CHOOSE i \in DOMAIN routes :
         /\ RouteMatches(routes[i].path, path)
         /\ \A k \in 1..(i - 1) : ~RouteMatches(routes[k].path, path)
  ELSE 0

\* the catalog request of a handler for a request
CatalogRequestOf(handler, req) ==
  IF handler = "search"
  THEN "/search?q=" \o req.query \o "&sort_by_date=0&len_min=0&len_max=-1&genre_ids=&page_size="
       \o (IF req.page_size = NoParam THEN "10" ELSE req.page_size)
       \o "&type=podcast&only_in=title%2Cdescription"
  ELSE IF handler = "details"
  THEN "/podcasts/" \o SubSeq(Unslashed(req.path), 2, Len(Unslashed(req.path)))
  ELSE IF handler = "genres" THEN "/genres"
  ELSE "/best_podcasts?page_size=" \o (IF req.page_size = NoParam THEN "10" ELSE req.page_size)
       \o (IF req.genre_id = NoParam THEN "" ELSE "&genre_id=" \o req.genre_id)

NoRequest == [path |-> "", query |-> NoParam, genre_id |-> NoParam, page_size |-> NoParam]

InitPodcastRouter ==
  /\ getRequest = NoRequest
  /\ handledBy = "none"
  /\ catalogRequest = ""
  /\ getOutcome = "none"

\* a GET request reaches the router: the first matching route's handler runs up
\* to its await of the catalog; with no matching route the request leaves the router
GetPodcasts(req) ==
  /\ getOutcome = "none" /\ handledBy = "none"
  /\ getRequest' = req
  /\ \E i \in {Dispatch(PodcastRoutes, req.path)} :
       IF i = 0
       THEN /\ getOutcome' = "notFound"
            /\ UNCHANGED <<handledBy, catalogRequest>>
       ELSE /\ handledBy' = PodcastRoutes[i].handler
            /\ catalogRequest' = CatalogRequestOf(PodcastRoutes[i].handler, req)
            /\ UNCHANGED getOutcome

\* the catalog answers the handler's request: res.json(response.data), or
\* next(error) when the request failed
PodcastCatalogAnswers(ok) ==
  /\ handledBy # "none" /\ getOutcome = "none"
  /\ getOutcome' = IF ok THEN "json" ELSE "error"
  /\ UNCHANGED <<getRequest, handledBy, catalogRequest>>

\* the GET requests given to the router
GetPaths == {"/search", "/genres", "/trending", "/genres/", "/abc123", "/", "/abc123/episodes"}

GetRequests ==
  {[path |-> p, query |-> q, genre_id |-> g, page_size |-> n] :
     p \in GetPaths, q \in {NoParam, "history"}, g \in {NoParam, "67"}, n \in {NoParam, "20"}}

(***************************************************************************)
(* pages/RecommendationsPage: getRecommendations                           *)
(***************************************************************************)
MaxPageCalls == 2

NoError == "null"

NoFavoritesError == "You need to add podcasts to your favorites first to get recommendations."

DefaultError == "Failed to get recommendations. Please try again."

processingMessages ==
  << "Collecting candidate podcasts...",
     "Analyzing content similarities...",
     "Generating embeddings...",
     "Calculating recommendation scores...",
     "Finding the best matches for you...",
     "Almost there! Finalizing recommendations..." >>

InitPage ==
  /\ pageFavorites = 0
  /\ loading = FALSE
  /\ processingStage = ""
  /\ pageError = NoError
  /\ pageRecommendations = 0
  /\ posting = FALSE
  /\ timers = <<>>

\* the favourites saved in localStorage are loaded, or favourites are added or removed
SetFavorites(n) ==
  /\ ~posting
  /\ pageFavorites # n
  /\ pageFavorites' = n
  /\ UNCHANGED <<loading, processingStage, pageError, pageRecommendations, posting, timers>>

\* getRecommendations up to its await of the request: with no favourites it sets
\* the error and returns, else it sets the flags, creates the timer and posts
GetRecommendations ==
  /\ ~posting
  /\ Len(timers) < MaxPageCalls
  /\ IF pageFavorites = 0
     THEN /\ pageError' = NoFavoritesError
          /\ UNCHANGED <<pageFavorites, loading, processingStage, pageRecommendations, posting,
                         timers>>
     ELSE /\ loading' = TRUE
          /\ pageError' = NoError
          /\ pageRecommendations' = 0
          /\ processingStage' = "Starting recommendation engine..."
          /\ timers' = Append(timers, [active |-> TRUE, messageIndex |-> 0])
          /\ posting' = TRUE
          /\ UNCHANGED pageFavorites

\* the interval callback of timer t: the next message while there is one
Tick(t) ==
  /\ t \in DOMAIN timers
  /\ timers[t].active
  /\ timers[t].messageIndex < Len(processingMessages)
  /\ processingStage' = processingMessages[timers[t].messageIndex + 1]
  /\ timers' = [timers EXCEPT ![t].messageIndex = @ + 1]
  /\ UNCHANGED <<pageFavorites, loading, pageError, pageRecommendations, posting>>

\* the request returns: the timer of this call is cleared, the recommendations
\* are set, and the finally block resets the flags
PostReturns(n) ==
  /\ posting
  /\ timers' = [timers EXCEPT ![Len(timers)].active = FALSE]
  /\ pageRecommendations' = n
  /\ loading' = FALSE
  /\ processingStage' = ""
  /\ posting' = FALSE
  /\ UNCHANGED <<pageFavorites, pageError>>

\* the request throws: the catch block sets the error and the finally block
\* resets the flags
PostThrows(message) ==
  /\ posting
  /\ pageError' = message
  /\ loading' = FALSE
  /\ processingStage' = ""
  /\ posting' = FALSE
  /\ UNCHANGED <<pageFavorites, pageRecommendations, timers>>

Init == InitRank /\ InitCollect /\ InitCall /\ InitEmbed /\ InitRoute /\ InitPodcastRouter
        /\ InitPage

Call ==
  /\ \E favs \in FavoriteInputs, cands \in CandidateInputs : GenerateRecommendations(favs, cands)
  /\ UNCHANGED <<collectVars, callVars, embedVars, shellVars>>

Respond ==
  /\ \E req \in inflight, outcome \in ProviderOutcomes :
       /\ outcome = "vector" \/ failures < MaxFailures
       /\ ProviderRespond(req, outcome)
  /\ UNCHANGED <<collectVars, callVars, embedVars, shellVars>>

NextRank == Call \/ Respond

\* generateRecommendations on short lists, over a provider that may fail
SpecRank == Init /\ [][NextRank]_vars

LongFavorites == {Present(<<FavA>>), Present(<<FavA, FavB>>)}

CallLong ==
  /\ \E favs \in LongFavorites, cands \in LongInputs : GenerateRecommendations(favs, cands)
  /\ UNCHANGED <<collectVars, callVars, embedVars, shellVars>>

RespondVector ==
  /\ \E req \in inflight : ProviderRespond(req, "vector")
  /\ UNCHANGED <<collectVars, callVars, embedVars, shellVars>>

NextTop == CallLong \/ RespondVector

\* generateRecommendations on lists of ten candidates and more, over a provider
\* that answers every request with a vector
SpecTop == Init /\ [][NextTop]_vars

\* the lists of candidates given while the provider is down
DownInputs == {Present(LongList), Present(<<CandX, CandY>>)}

CallDown ==
  /\ \E favs \in LongFavorites, cands \in DownInputs : GenerateRecommendations(favs, cands)
  /\ UNCHANGED <<collectVars, callVars, embedVars, shellVars>>

RespondThrow ==
  /\ \E req \in inflight : ProviderRespond(req, "throw")
  /\ UNCHANGED <<collectVars, callVars, embedVars, shellVars>>

NextDown == CallDown \/ RespondThrow

\* generateRecommendations while the provider is down: every request throws
SpecDown == Init /\ [][NextDown]_vars

Standardize ==
  /\ \E favs \in StandardizeInputs : StandardizeFavorites(favs)
  /\ UNCHANGED <<rankVars, collectVars, embedVars, shellVars>>

Restandardize == StandardizeAgain /\ UNCHANGED <<rankVars, collectVars, embedVars, shellVars>>

NextStandardize == Standardize \/ Restandardize

\* standardizeFavorites on raw favourites, and on its own output
SpecStandardize == Init /\ [][NextStandardize]_vars

Queries ==
  /\ call = NoCall
  /\ \E favs \in QueryInputs : GenerateDiverseQueries(favs)
  /\ UNCHANGED <<rankVars, collectVars, embedVars, shellVars>>

Cosine ==
  /\ call = NoCall
  /\ \E vec1, vec2 \in CosineInputs : CalculateCosineSimilarity(vec1, vec2)
  /\ UNCHANGED <<rankVars, collectVars, embedVars, shellVars>>

Keywords ==
  /\ call = NoCall
  /\ \E text \in KeywordTexts, limit \in 0..MaxLimit : ExtractKeywords(text, limit)
  /\ UNCHANGED <<rankVars, collectVars, embedVars, shellVars>>

Topics ==
  /\ call = NoCall
  /\ \E topicsA, topicsB \in TopicInputs : CalculateTopicSimilarity(topicsA, topicsB)
  /\ UNCHANGED <<rankVars, collectVars, embedVars, shellVars>>

NextUtil == Queries \/ Cosine \/ Keywords \/ Topics

\* the utilities called on their own, one call in a behaviour
SpecUtil == Init /\ [][NextUtil]_vars

Embed ==
  /\ \E text \in EmbedTexts : GenerateEmbedding(text)
  /\ UNCHANGED <<collectVars, callVars, shellVars>>

Embedded ==
  /\ \E req \in inflight, outcome \in ProviderOutcomes :
       /\ outcome = "vector" \/ failures < MaxFailures
       /\ EmbeddingReturn(req, outcome)
  /\ UNCHANGED <<collectVars, callVars, shellVars>>

Post ==
  /\ \E favs \in RouteBodies : PostRecommendations(favs)
  /\ UNCHANGED <<callVars, embedVars, podcastVars, pageVars>>

Catalog ==
  /\ \E response \in RouteResponses : HandlerCatalogRespond(response)
  /\ UNCHANGED <<callVars, embedVars, podcastVars, pageVars>>

Provider ==
  /\ \E req \in inflight, outcome \in {"vector", "throw"} :
       /\ outcome = "vector" \/ failures < MaxFailures
       /\ HandlerProviderRespond(req, outcome)
  /\ UNCHANGED <<collectVars, callVars, embedVars, podcastVars, pageVars>>

NextRoute == Post \/ Catalog \/ Provider

\* one request to POST /api/recommendations, over a catalog and a provider that
\* may fail
SpecRoute == Init /\ [][NextRoute]_vars

Get ==
  /\ \E req \in GetRequests : GetPodcasts(req)
  /\ UNCHANGED <<rankVars, collectVars, callVars, embedVars, routeVars, pageVars>>

Answered ==
  /\ \E ok \in BOOLEAN : PodcastCatalogAnswers(ok)
  /\ UNCHANGED <<rankVars, collectVars, callVars, embedVars, routeVars, pageVars>>

NextPodcasts == Get \/ Answered

\* one GET request to the podcast router
SpecPodcasts == Init /\ [][NextPodcasts]_vars

Favorites ==
  /\ \E n \in 0..2 : SetFavorites(n)
  /\ UNCHANGED <<rankVars, collectVars, callVars, embedVars, routeVars, podcastVars>>

Click ==
  /\ GetRecommendations
  /\ UNCHANGED <<rankVars, collectVars, callVars, embedVars, routeVars, podcastVars>>

Interval ==
  /\ \E t \in 1..MaxPageCalls : Tick(t)
  /\ UNCHANGED <<rankVars, collectVars, callVars, embedVars, routeVars, podcastVars>>

Succeeds ==
  /\ \E n \in 0..2 : PostReturns(n)
  /\ UNCHANGED <<rankVars, collectVars, callVars, embedVars, routeVars, podcastVars>>

Fails ==
  /\ \E message \in {DefaultError, "No recommendations could be generated"} : PostThrows(message)
  /\ UNCHANGED <<rankVars, collectVars, callVars, embedVars, routeVars, podcastVars>>

NextPage == Favorites \/ Click \/ Interval \/ Succeeds \/ Fails

\* the recommendations page: clicks, timer ticks and the request's outcomes
SpecPage == Init /\ [][NextPage]_vars

NextEmbed == Embed \/ Embedded

\* generateEmbedding called directly, calls overlapping, over a provider that may fail
SpecEmbed == Init /\ [][NextEmbed]_vars

Collect ==
  /\ \E favs \in CollectInputs : GetCandidatePodcasts(favs)
  /\ UNCHANGED <<rankVars, callVars, embedVars, shellVars>>

Fetched ==
  /\ \E response \in CatalogResponses : CatalogRespond(response)
  /\ UNCHANGED <<rankVars, callVars, embedVars, shellVars>>

NextCollect == Collect \/ Fetched

\* getCandidatePodcasts over a catalog that may fail
SpecCollect == Init /\ [][NextCollect]_vars

(***************************************************************************)
(* Properties of getCandidatePodcasts                                      *)
(***************************************************************************)
\* getCandidatePodcasts returned a list collected from the catalog
Collected == cpc = "done" /\ ~collectRaised /\ ~NoLength(favoritePodcasts)

FavoriteIdSet == {favoritePodcasts.items[i].id : i \in DOMAIN favoritePodcasts.items}

\* C1: no podcast returned by getCandidatePodcasts has the id of a favourite,
\* whatever the catalog answered
C1_NoFavoriteReturned ==
  \A i \in DOMAIN uniqueCandidates : uniqueCandidates[i].id \notin FavoriteIdSet

\* the catalog returned a podcast with a favourite's id and the list returned is not empty
C1_Witness ==
  /\ Collected /\ Len(uniqueCandidates) > 0
  /\ \E k \in DOMAIN collected : collected[k].id \in FavoriteIdSet

\* C2: no two podcasts returned by getCandidatePodcasts share an id, and an id
\* fetched several times that is not a favourite's is returned exactly once
C2_UniqueIds ==
  /\ \A i, j \in DOMAIN uniqueCandidates :
       i # j => uniqueCandidates[i].id # uniqueCandidates[j].id
  /\ Collected =>
       \A k \in DOMAIN collected :
         collected[k].id \notin FavoriteIdSet =>
           Cardinality({i \in DOMAIN uniqueCandidates :
                          uniqueCandidates[i].id = collected[k].id}) = 1

\* the ids in the answer to the a-th call
IdsOfCall(a) == {callLog[a].response.results[k].id : k \in DOMAIN callLog[a].response.results}

\* a genre lookup and a text search both returned the same id, and one fetch
\* returned an id twice
C2_Witness ==
  /\ Collected
  /\ \E a, b \in DOMAIN callLog :
       /\ callLog[a].call.endpoint = "best_podcasts" /\ callLog[b].call.endpoint = "search"
       /\ (IdsOfCall(a) \cap IdsOfCall(b)) \ FavoriteIdSet # {}
  /\ \E a \in DOMAIN callLog :
       Cardinality(IdsOfCall(a)) < Len(callLog[a].response.results)

\* the results of the first n calls that the catalog answered with data
RECURSIVE ResultsOf(_)
ResultsOf(n) ==
  IF n = 0 THEN <<>>
  ELSE ResultsOf(n - 1) \o (IF callLog[n].response.kind = "data"
                            THEN callLog[n].response.results ELSE <<>>)

\* the positions of all that hold the first occurrence of an id no favourite has
FirstOccurrences(all) ==
  {i \in DOMAIN all : /\ all[i].id \notin FavoriteIdSet
                      /\ \A j \in 1..(i - 1) : all[j].id # all[i].id}

\* the k-th smallest element of a set of numbers
Nth(S, k) == CHOOSE i \in S : Cardinality({j \in S : j < i}) = k - 1

\* C3: a failing catalog call is not propagated, every planned call is still
\* issued, and the output is the deduplicated, favourite-excluded results of the
\* calls that succeeded
C3_FailuresIsolated ==
  /\ collectRaised => HasNull(favoritePodcasts.items)
  /\ Collected =>
       /\ Len(callLog) = Len(plan)
       /\ \A i \in DOMAIN callLog : callLog[i].call = plan[i]
       /\ \E all \in {ResultsOf(Len(callLog))} :
          \E keep \in {FirstOccurrences(all)} :
            uniqueCandidates = [k \in 1..Cardinality(keep) |-> all[Nth(keep, k)]]

\* a call failed, a later call succeeded and its results were returned
C3_Witness ==
  /\ Collected /\ Len(uniqueCandidates) > 0
  /\ \E a, b \in DOMAIN callLog :
       /\ a < b
       /\ callLog[a].response.kind = "throw"
       /\ callLog[b].response.kind = "data" /\ Len(callLog[b].response.results) > 0

(***************************************************************************)
(* Properties of generateRecommendations, rankCandidates, generateEmbedding *)
(***************************************************************************)
Returned == pc = "done"

\* the call passed both guards and no list holds a null element, so that
\* rankCandidates returned its sorted list
RankReturned ==
  /\ Returned
  /\ ~NoLength(favorites) /\ ~NoLength(candidates)
  /\ ~HasNull(favorites.items) /\ ~HasNull(candidates.items)

\* C4: generateRecommendations returns at most 10 recommendations, however many
\* candidates it is given
C4_AtMostTen == Len(result) <= 10

\* more than ten candidates were given and ten recommendations returned
C4_Witness == Returned /\ Len(candidates.items) > 10 /\ Len(result) = 10

\* the mean combined score of the candidate behind the i-th recommendation
MeanOf(i) == rankedCandidates[result[i].candIdx].similarityScore

\* C5 as stated: the returned list is sorted by similarity_score descending, for
\* any number of favourites
C5_SortedBySimilarityScore ==
  \A i, j \in DOMAIN result :
    i < j => ~RLess(result[i].similarity_score, result[j].similarity_score)

\* C5 amended: the returned list is sorted by the candidates' mean combined score
\* descending; that is the order of similarity_score when there is one favourite
C5_SortedByMean ==
  /\ \A i, j \in DOMAIN result : i < j => ~RLess(MeanOf(i), MeanOf(j))
  /\ Len(favorites.items) = 1 => C5_SortedBySimilarityScore

\* two favourites, and a recommendation placed before one of smaller mean but
\* larger similarity_score
C5_Witness ==
  /\ Returned /\ Len(favorites.items) >= 2
  /\ \E i, j \in DOMAIN result :
       /\ i < j
       /\ RLess(MeanOf(j), MeanOf(i))
       /\ RLess(result[i].similarity_score, result[j].similarity_score)

\* C6: with favourites or candidates empty or missing, generateRecommendations
\* returns the empty list and makes no embedding request
C6_EmptyInputs ==
  (/\ Returned
   /\ \/ ~favorites.present \/ Len(favorites.items) = 0
      \/ ~candidates.present \/ Len(candidates.items) = 0)
  => result = <<>> /\ ~raised /\ providerCalls = 0 /\ inflight = {}

\* favourites missing while candidates were given
C6_Witness ==
  Returned /\ ~favorites.present /\ candidates.present /\ Len(candidates.items) > 0

\* C7: generateRecommendations never raises; a failure that escapes the ranking
\* step (a null list element) gives the empty list
C7_NeverRaises ==
  /\ ~raised
  /\ (/\ Returned /\ favorites.present /\ candidates.present
      /\ HasNull(favorites.items) \/ HasNull(candidates.items))
     => result = <<>>

\* ranking started, failed on a null candidate, and the empty list came back
C7_Witness ==
  /\ Returned /\ ~NoLength(favorites) /\ ~HasNull(favorites.items)
  /\ HasNull(candidates.items) /\ providerCalls > 0 /\ result = <<>>

\* C8: rankCandidates returns every candidate exactly once, by similarityScore
\* descending, candidates of equal similarityScore in their input order
C8_StableRanking ==
  RankReturned =>
    /\ Len(ranked) = Len(candidates.items)
    /\ \A k \in DOMAIN candidates.items :
         Cardinality({i \in DOMAIN ranked : ranked[i].idx = k}) = 1
    /\ \A i \in DOMAIN ranked : ranked[i] = rankedCandidates[ranked[i].idx]
    /\ \A i, j \in DOMAIN ranked :
         i < j =>
           /\ ~RLess(ranked[i].similarityScore, ranked[j].similarityScore)
           /\ ranked[i].similarityScore = ranked[j].similarityScore
                => ranked[i].idx < ranked[j].idx

\* two candidates of equal similarityScore were ranked
C8_Witness ==
  /\ RankReturned
  /\ \E i, j \in DOMAIN ranked :
       i < j /\ ranked[i].similarityScore = ranked[j].similarityScore

\* the sum of the combined scores of candidate j with the favourites 1..n
RECURSIVE CombinedSum(_, _)
CombinedSum(j, n) ==
  IF n = 0 THEN RZero
  ELSE RAdd(CombinedSum(j, n - 1),
            CombinedScore(
              calculateCosineSimilarity(favoriteEmbeddings[n].embedding,
                                        rankedCandidates[j].embedding),
              calculateTopicSimilarity(
                favoriteEmbeddings[n].topics,
                extractTopics(DescriptionOf(candidates.items[j]), TopicLimit))))

\* C9: a candidate's similarityScore is the arithmetic mean of
\* semantic * 0.7 + topic * 1.5 * 0.3 over all favourites
C9_MeanOverFavorites ==
  \A j \in DOMAIN rankedCandidates :
    rankedCandidates[j].done =>
      rankedCandidates[j].similarityScore =
        RDiv(CombinedSum(j, Len(favoriteEmbeddings)), <<Len(favoriteEmbeddings), 1>>)

\* a candidate scored against two favourites whose mean differs from its best pairing
C9_Witness ==
  /\ Len(favoriteEmbeddings) >= 2
  /\ \E j \in DOMAIN rankedCandidates :
       /\ rankedCandidates[j].done
       /\ rankedCandidates[j].similarityScore # rankedCandidates[j].matchScore

\* C10: generateEmbedding never raises; when the provider throws or answers with
\* something that is not a non-empty array it returns 384 zeros
C10_ZeroVectorOnFailure ==
  /\ ~lastEmbed.raised
  /\ lastEmbed.kind \in {"throw", "notArray", "emptyArray"}
       => /\ Len(lastEmbed.returned) = 384
          /\ \A i \in 1..384 : lastEmbed.returned[i] = 0

\* the provider threw and generateEmbedding returned
C10_Witness == lastEmbed.kind = "throw" /\ ~lastEmbed.raised /\ Len(lastEmbed.returned) = 384

\* every provider request of the call was answered, each with a failure
AllEmbeddingsFailed == Returned /\ inflight = {} /\ providerCalls > 0 /\ failures = providerCalls

\* no list holds a null element or a podcast whose genre_ids is not an array
WellFormed(items) ==
  \A i \in DOMAIN items : ~items[i].isNull /\ items[i].genre_ids_iterable

\* C11: when every provider call fails, generateRecommendations on non-empty lists
\* of podcasts still returns min(10, |C|) recommendations, each with semantic_score 0
C11_CompletesWithoutProvider ==
  (/\ AllEmbeddingsFailed
   /\ ~NoLength(favorites) /\ ~NoLength(candidates)
   /\ WellFormed(favorites.items) /\ WellFormed(candidates.items))
  => /\ ~raised
     /\ Len(result) = (IF Len(candidates.items) < 10 THEN Len(candidates.items) ELSE 10)
     /\ \A i \in DOMAIN result : result[i].semantic_score = RZero

\* eleven candidates, every request failed, ten recommendations returned
C11_Witness ==
  AllEmbeddingsFailed /\ Len(candidates.items) > 10 /\ Len(result) = 10 /\ failures > 10

(***************************************************************************)
(* Properties of standardizeFavorites                                      *)
(***************************************************************************)
StandardizeReturned == call.fn = "standardizeFavorites" /\ ~ret.raised /\ ~NoLength(call.arg)

\* the value, else the alternate, else the default, an empty or absent value
\* counting as none
FirstNonEmpty(a, b, c) ==
  IF a # Undefined /\ Len(a) > 0 THEN a ELSE IF b # Undefined /\ Len(b) > 0 THEN b ELSE c

\* C12: every podcast standardizeFavorites produces has a non-empty title,
\* description and publisher: the field, else its *_original, else the default
C12_FieldsFilled ==
  StandardizeReturned =>
    /\ Len(ret.value) = Len(call.arg.items)
    /\ \A i \in DOMAIN ret.value :
         \E in \in {call.arg.items[i]}, out \in {ret.value[i]} :
           /\ out.title # Undefined /\ Len(out.title) > 0
           /\ out.description # Undefined /\ Len(out.description) > 0
           /\ out.publisher # Undefined /\ Len(out.publisher) > 0
           /\ out.title = FirstNonEmpty(in.title, in.title_original, "Unknown Podcast")
           /\ out.description = FirstNonEmpty(in.description, in.description_original,
                                              "No description available")
           /\ out.publisher = FirstNonEmpty(in.publisher, in.publisher_original,
                                            "Unknown Publisher")

\* the object {} was standardized to the three default strings
C12_Witness ==
  /\ StandardizeReturned /\ ~call.again
  /\ call.arg.items[1] = EmptyObject
  /\ ret.value[1].title = "Unknown Podcast"
  /\ ret.value[1].description = "No description available"
  /\ ret.value[1].publisher = "Unknown Publisher"

\* C13: standardizeFavorites applied to its own output returns that output
C13_Idempotent ==
  (call.fn = "standardizeFavorites" /\ call.again) =>
    ~ret.raised /\ ret.value = call.arg.items

\* the second application to a list whose first application filled in a default
C13_Witness ==
  /\ call.fn = "standardizeFavorites" /\ call.again /\ ~ret.raised
  /\ Len(ret.value) > 0
  /\ ret.value[1].title = "Unknown Podcast" /\ ret.value[1].publisher = "PO"

(***************************************************************************)
(* Properties of the utilities                                             *)
(***************************************************************************)
\* C14: generateDiverseQueries returns at most 3 queries, no two of them equal
C14_DistinctQueries ==
  call.fn = "generateDiverseQueries" =>
    /\ ~ret.raised
    /\ Len(ret.value) <= 3
    /\ \A i, j \in DOMAIN ret.value : i # j => ret.value[i] # ret.value[j]

\* two favourites with two shared themes whose top keyword is the first theme:
\* three queries are pushed and two returned
C14_Witness ==
  /\ call.fn = "generateDiverseQueries" /\ call.arg = Present(<<FavB, FavC>>)
  /\ Len(extractThemesFromPodcasts(call.arg.items)) = 2
  /\ Len(ret.value) = 2
  /\ ret.value[1].q = extractThemesFromPodcasts(call.arg.items)[1]

CosineCalled == call.fn = "calculateCosineSimilarity"

\* C15 as stated: calculateCosineSimilarity returns 0 and does not raise when an
\* argument is not an array, is empty, holds an entry that is not a number, the
\* lengths differ, or a vector has magnitude 0
C15_ZeroOnBadInput ==
  (/\ CosineCalled
   /\ \E k \in 1..2 :
        \/ ~call.arg[k].isArray
        \/ Len(call.arg[k].items) = 0
        \/ call.arg[k].nonNumeric # {}
        \/ Len(call.arg[1].items) # Len(call.arg[2].items)
        \/ ZeroMagnitude(call.arg[k]))
  => ~ret.raised /\ ret.value = RZero

KeywordsCalled == call.fn = "extractKeywords"

\* C16 as stated: extractKeywords("the the the cat cat dog", 2) returns ["cat", "dog"]
C16_CatDog ==
  (KeywordsCalled /\ call.arg = [text |-> "the the the cat cat dog", limit |-> 2])
  => ret.value = <<"cat", "dog">>

\* C16 amended: extractKeywords("the the the cat cat dog", 2) returns []: words of
\* three characters or fewer are dropped; with the words made longer than three
\* characters, "the the the cats cats dogs", it returns ["cats", "dogs"]; and
\* every keyword returned is longer than three characters
C16_ShortWordsDropped ==
  KeywordsCalled =>
    /\ call.arg = [text |-> "the the the cat cat dog", limit |-> 2] => ret.value = <<>>
    /\ call.arg = [text |-> "the the the cats cats dogs", limit |-> 2]
         => ret.value = <<"cats", "dogs">>
    /\ Len(ret.value) <= call.arg.limit
    /\ \A i \in DOMAIN ret.value : Len(ret.value[i]) > 3

\* extractKeywords("the the the cat cat dog", 2) returned the empty list
C16_Witness ==
  /\ KeywordsCalled /\ call.arg = [text |-> "the the the cat cat dog", limit |-> 2]
  /\ ret.value = <<>>

\* the pairing of candidate j with favourite i: its semantic, topic and combined score
Pairing(j, i) ==
  Let1(calculateCosineSimilarity(favoriteEmbeddings[i].embedding, rankedCandidates[j].embedding),
       LAMBDA semantic :
         Let1(calculateTopicSimilarity(
                favoriteEmbeddings[i].topics,
                extractTopics(DescriptionOf(candidates.items[j]), TopicLimit)),
              LAMBDA topic :
                [semantic |-> semantic, topic |-> topic,
                 combined |-> CombinedScore(semantic, topic)]))

\* the earliest favourite whose pairing with candidate j has the highest combined score
BestFavorite(j) ==
  CHOOSE b \in DOMAIN favoriteEmbeddings :
    /\ \A i \in DOMAIN favoriteEmbeddings :
         ~RLess(Pairing(j, b).combined, Pairing(j, i).combined)
    /\ \A i \in 1..(b - 1) : RLess(Pairing(j, i).combined, Pairing(j, b).combined)

\* C17: the best match reported for a ranked candidate, and by its recommendation
\* (most_similar_to, semantic_score, topic_score, similarity_score), is the one
\* pairing with the highest combined score, the earliest favourite on ties
C17_BestPairingReported ==
  /\ \A j \in DOMAIN rankedCandidates :
       rankedCandidates[j].done =>
         Let1(BestFavorite(j), LAMBDA b :
           /\ rankedCandidates[j].mostSimilarIdx = b
           /\ rankedCandidates[j].semanticScore = Pairing(j, b).semantic
           /\ rankedCandidates[j].topicScore = Pairing(j, b).topic
           /\ rankedCandidates[j].matchScore = Pairing(j, b).combined)
  /\ \A r \in DOMAIN result :
       Let1(result[r].candIdx, LAMBDA j :
         Let1(BestFavorite(j), LAMBDA b :
           /\ result[r].most_similar_to = favorites.items[b].id
           /\ result[r].semantic_score = Pairing(j, b).semantic
           /\ result[r].topic_score = Pairing(j, b).topic
           /\ result[r].similarity_score = Pairing(j, b).combined))

\* a recommendation whose candidate ties with two different favourites on a
\* combined score above 0 and names the first of them
C17_Witness ==
  /\ Returned /\ Len(favorites.items) = 2
  /\ favorites.items[1].id # favorites.items[2].id
  /\ \E r \in DOMAIN result :
       /\ Pairing(result[r].candIdx, 1).combined = Pairing(result[r].candIdx, 2).combined
       /\ RLess(RZero, result[r].similarity_score)
       /\ result[r].most_similar_to = favorites.items[1].id

\* the recommendations whose reason is not the fallback for a favourite without title
Explained == {r \in DOMAIN result : ~result[r].reason.fallback}

KeyOf(k) == Prefix(embedCalls[k].text, 100)

\* the vector the provider's model gives for the text of the k-th call
OwnVector(k) == ProviderVector(Prefix(embedCalls[k].text, MaxInputLen))

\* the i-th call returned a vector of the provider, and the j-th call, on a text
\* with the same first 100 characters, started after that
LaterSamePrefix(i, j) ==
  /\ embedCalls[i].requested /\ embedCalls[i].stored /\ embedCalls[i].order > 0
  /\ embedCalls[j].started >= embedCalls[i].order
  /\ KeyOf(j) = KeyOf(i)

\* the calls that stored a vector under the key of the j-th call before it started
StoredBefore(j) ==
  {k \in DOMAIN embedCalls :
     /\ embedCalls[k].stored /\ KeyOf(k) = KeyOf(j)
     /\ embedCalls[k].order > 0 /\ embedCalls[k].order <= embedCalls[j].started}

\* the one of them that returned last
LastStoredBefore(j) ==
  CHOOSE k \in StoredBefore(j) :
    \A m \in StoredBefore(j) : embedCalls[m].order <= embedCalls[k].order

\* C19 as stated: once embed(t1) has returned a vector of the provider, a later
\* embed(t2) with the same first 100 characters makes no provider call and
\* returns that same vector
C19_SameVectorAsFirst ==
  \A i, j \in DOMAIN embedCalls :
    LaterSamePrefix(i, j) =>
      ~embedCalls[j].requested /\ embedCalls[j].value = embedCalls[i].value

\* C19 amended: once embed(t1) has returned a vector of the provider, a later
\* embed(t2) with the same first 100 characters makes no provider call and
\* returns the vector stored last under that prefix before it started; that is
\* t1's vector unless a call that had missed on the same prefix returned after t1
C19_CachedVectorNoRequest ==
  \A i, j \in DOMAIN embedCalls :
    LaterSamePrefix(i, j) =>
      /\ ~embedCalls[j].requested
      /\ embedCalls[j].order > 0
      /\ embedCalls[j].value = embedCalls[LastStoredBefore(j)].value
      /\ (\A k \in StoredBefore(j) : embedCalls[k].order <= embedCalls[i].order)
           => embedCalls[j].value = embedCalls[i].value

\* a later call on a text that differs after character 100, and whose own vector
\* would differ, returned the first call's vector
C19_Witness ==
  \E i, j \in DOMAIN embedCalls :
    /\ LaterSamePrefix(i, j)
    /\ embedCalls[j].text # embedCalls[i].text
    /\ embedCalls[j].value = embedCalls[i].value
    /\ OwnVector(j) # embedCalls[i].value

\* at least two calls, each on a text of 100 characters or more, all with the
\* same first 100 characters, all returned, no provider call having failed
SamePrefixCallsDone ==
  /\ Len(embedCalls) >= 2
  /\ inflight = {} /\ failures = 0
  /\ \A k \in DOMAIN embedCalls :
       /\ embedCalls[k].order > 0
       /\ Len(embedCalls[k].text) >= 100
       /\ KeyOf(k) = KeyOf(1)

\* what the calls return when they run one after another, the k-th call first:
\* every call returns the vector of the k-th call's text, which the cache holds
AsSequentialFrom(k) ==
  /\ \A c \in DOMAIN embedCalls : embedCalls[c].value = OwnVector(k)
  /\ embeddingCache = [key \in {KeyOf(k)} |-> OwnVector(k)]

LastRequested ==
  CHOOSE k \in DOMAIN embedCalls :
    /\ embedCalls[k].requested
    /\ \A m \in DOMAIN embedCalls :
         embedCalls[m].requested => embedCalls[m].order <= embedCalls[k].order

Awaiting(phase) == {req \in inflight : req.phase = phase}

\* no candidate request exists while a favourite's request is unanswered, and
\* rankCandidates has returned its sorted list only with every candidate scored
PhasesInOrder ==
  /\ Awaiting("cand") # {} => Awaiting("fav") = {} /\ AllDone(favoriteEmbeddings)
  /\ (\E j \in DOMAIN rankedCandidates : rankedCandidates[j].done)
       => Awaiting("fav") = {} /\ AllDone(favoriteEmbeddings)
  /\ ranked # <<>> => Awaiting("cand") = {} /\ AllDone(rankedCandidates)

\* the requests of one phase are issued in one step: the favourites' when
\* rankCandidates starts, the candidates' in the step in which the last
\* favourite's embedding arrives (or at the start when no favourite needs one)
IssuedTogether ==
  /\ (\E req \in inflight' \ inflight : req.phase = "fav")
       => pc = "idle" /\ Awaiting("fav") = {}
  /\ (\E req \in inflight' \ inflight : req.phase = "cand")
       => /\ Awaiting("cand") = {} /\ pc \in {"idle", "favs"}
          /\ \A req \in inflight' : req.phase # "fav"

\* C21: within one rankCandidates call the favourites' embedding requests are
\* issued together and are all answered before the first candidate request is
\* issued, and every candidate embedding is there before the list is sorted
\* and returned
C21_FavoritesThenCandidates == [](PhasesInOrder) /\ [][IssuedTogether]_vars

\* two favourites were embedded and the requests of two candidates are awaiting
C21_Witness ==
  /\ pc = "cands" /\ Len(favoriteEmbeddings) = 2 /\ AllDone(favoriteEmbeddings)
  /\ Cardinality(Awaiting("cand")) = 2 /\ providerCalls = 4

(***************************************************************************)
(* The catalog calls of getCandidatePodcasts                               *)
(***************************************************************************)
\* getCandidatePodcasts was given favourites, none of them null, and has made
\* every call it makes
CollectionDone ==
  cpc = "done" /\ ~NoLength(favoritePodcasts) /\ ~HasNull(favoritePodcasts.items)

\* the genre ids of the favourites, repetitions included, in the order in which
\* the favourites and their genre_ids are read
GenreIdsRead ==
  LET RECURSIVE Read(_)
      Read(i) == IF i > Len(favoritePodcasts.items) THEN <<>>
                 ELSE favoritePodcasts.items[i].genre_ids \o Read(i + 1)
  IN  Read(1)

\* the positions of GenreIdsRead at which a genre id is met for the first time
FirstMet == {p \in DOMAIN GenreIdsRead : \A q \in 1..(p - 1) : GenreIdsRead[q] # GenreIdsRead[p]}

\* the calls issued to best_podcasts, in the order issued
GenreCalls ==
  LET RECURSIVE Issued(_)
      Issued(i) == IF i > Len(callLog) THEN <<>>
                   ELSE (IF callLog[i].call.endpoint = "best_podcasts"
                         THEN <<callLog[i].call>> ELSE <<>>) \o Issued(i + 1)
  IN  Issued(1)

\* C22: getCandidatePodcasts requests best_podcasts for the first min(2, k) of
\* the k distinct genre ids, in the order in which they are met in the
\* favourites, each with page_size 20, and for no other genre
C22_FirstTwoGenres ==
  CollectionDone =>
    /\ Len(GenreCalls) = (IF Cardinality(FirstMet) < 2 THEN Cardinality(FirstMet) ELSE 2)
    /\ \A n \in DOMAIN GenreCalls :
         /\ GenreCalls[n].page_size = 20
         /\ \E p \in FirstMet :
              /\ Cardinality({q \in FirstMet : q < p}) = n - 1
              /\ GenreCalls[n].param = GenreIdsRead[p]

\* favourites with genres 2, then 2, 1, 3: best_podcasts was requested for 2 and
\* for 1 and not for 3
C22_Witness ==
  /\ CollectionDone
  /\ GenreIdsRead = <<2, 2, 1, 3>>
  /\ Len(GenreCalls) = 2 /\ GenreCalls[1].param = 2 /\ GenreCalls[2].param = 1

(***************************************************************************)
(* The queries of generateDiverseQueries                                   *)
(***************************************************************************)
\* generateDiverseQueries was called on a list of podcasts, none of them null
QueriesCalled ==
  call.fn = "generateDiverseQueries" /\ call.arg.present /\ ~HasNull(call.arg.items)

\* the topics of the i-th favourite of the call: the terms extractTopics gives
\* for its description
TopicTermsOf(i) ==
  {e.term : e \in Range(extractTopics(DescriptionOf(call.arg.items[i]), 10))}

\* the topics that two entries of the list of favourites have in common
SharedTopics ==
  UNION {IF i # j THEN TopicTermsOf(i) \cap TopicTermsOf(j) ELSE {} :
           i \in DOMAIN call.arg.items, j \in DOMAIN call.arg.items}

\* the keywords of the favourites' descriptions joined by spaces
DescriptionKeywords ==
  extractKeywords(Join([i \in DOMAIN call.arg.items |-> DescriptionOf(call.arg.items[i])]), 10)

\* C23: generateDiverseQueries emits a theme query only for a topic that two
\* favourites share: at most one of its queries, the keyword query, is for
\* another term, and with no shared topic (as with one favourite) it returns at
\* most one query, for a keyword
C23_ThemesAreShared ==
  QueriesCalled =>
    /\ Cardinality({n \in DOMAIN ret.value : ret.value[n].q \notin SharedTopics}) <= 1
    /\ \A n \in DOMAIN ret.value :
         ret.value[n].q \in SharedTopics \cup Range(DescriptionKeywords)
    /\ SharedTopics = {} => Len(ret.value) <= 1
    /\ Len(call.arg.items) = 1 => SharedTopics = {}

\* two different favourites with topics but none in common: one query was returned
C23_Witness ==
  /\ QueriesCalled /\ Len(call.arg.items) = 2
  /\ TopicTermsOf(1) # {} /\ TopicTermsOf(2) # {} /\ SharedTopics = {}
  /\ Len(ret.value) = 1 /\ ret.value[1].q \in Range(DescriptionKeywords)

\* the publisher names of the favourites of the call, in lower case
PublisherNames ==
  {toLowerCase(Or3(p.publisher, p.publisher_original, "")) : p \in Range(call.arg.items)} \ {""}

\* the words, separated by spaces, of those names
PublisherNameWords == UNION {Range(Split(name)) : name \in PublisherNames}

\* the keywords of the descriptions that are longer than 3 characters and not
\* in the set excluded, in their order
KeywordsOutside(excluded) ==
  LET RECURSIVE Rest(_)
      Rest(i) ==
        IF i > Len(DescriptionKeywords) THEN <<>>
        ELSE (IF Len(DescriptionKeywords[i]) > 3
                 /\ toLowerCase(DescriptionKeywords[i]) \notin excluded
              THEN <<DescriptionKeywords[i]>> ELSE <<>>) \o Rest(i + 1)
  IN  Rest(1)

\* the keyword query is for the first of the remaining keywords, when one
\* remains, and the other queries are for themes
KeywordQueryFrom(remaining) ==
  /\ remaining # <<>> => \E n \in DOMAIN ret.value : ret.value[n].q = remaining[1]
  /\ \A n \in DOMAIN ret.value :
       \/ ret.value[n].q \in SharedTopics
       \/ remaining # <<>> /\ ret.value[n].q = remaining[1]

\* C24 as stated: a keyword is dropped exactly when it has 3 or fewer characters
\* or equals, case-insensitively, the publisher name of a favourite, and the
\* keyword query uses the first keyword that remains
C24_DropsPublisherNames == QueriesCalled => KeywordQueryFrom(KeywordsOutside(PublisherNames))

\* C24 amended: a keyword is dropped exactly when it has 3 or fewer characters or
\* equals, case-insensitively, one of the whitespace-separated words of a
\* favourite's publisher name, and the keyword query uses the first keyword
\* that remains
C24_DropsPublisherWords ==
  QueriesCalled => KeywordQueryFrom(KeywordsOutside(PublisherNameWords))

\* the top keyword is a word of a two-word publisher name and was dropped: the
\* keyword query is for the keyword after it
C24_Witness ==
  /\ QueriesCalled /\ call.arg.items = <<FavE>>
  /\ DescriptionKeywords[1] = "media" /\ "media" \notin PublisherNames
  /\ Len(ret.value) = 1 /\ ret.value[1].q = "critics"

(***************************************************************************)
(* Properties of calculateTopicSimilarity                                  *)
(***************************************************************************)
\* calculateTopicSimilarity was called on two lists of topics
TopicsCalled ==
  call.fn = "calculateTopicSimilarity" /\ call.arg[1].present /\ call.arg[2].present

TopicsA == call.arg[1].items
TopicsB == call.arg[2].items

\* the sum of all scores of A
TotalOfA ==
  LET RECURSIVE Sum(_)
      Sum(i) == IF i > Len(TopicsA) THEN 0 ELSE TopicsA[i].score + Sum(i + 1)
  IN  Sum(1)

\* the sum, over the terms of A that occur in B, of the smaller of the two scores
MatchedOfA ==
  LET RECURSIVE Sum(_)
      Sum(i) ==
        IF i > Len(TopicsA) THEN 0
        ELSE (IF \E j \in DOMAIN TopicsB : TopicsB[j].term = TopicsA[i].term
              THEN LET b == TopicsB[CHOOSE j \in DOMAIN TopicsB :
                                      TopicsB[j].term = TopicsA[i].term].score
                   IN  IF b < TopicsA[i].score THEN b ELSE TopicsA[i].score
              ELSE 0) + Sum(i + 1)
  IN  Sum(1)

\* the result is 0 for an empty list, the quotient otherwise, and in [0, 1]
QuotientOfSums ==
  /\ ~ret.raised
  /\ (TopicsA = <<>> \/ TopicsB = <<>>) => ret.value = RZero
  /\ (TopicsA # <<>> /\ TopicsB # <<>> /\ TotalOfA > 0)
       => ret.value[1] * TotalOfA = MatchedOfA * ret.value[2]
  /\ ~RLess(ret.value, RZero) /\ ~RLess(<<1, 1>>, ret.value)

\* C25 as stated: topicSimilarity(A, B) is 0 when A or B is empty, otherwise the
\* sum of min(scoreA, scoreB) over the terms of A in B divided by the sum of
\* A's scores; it lies in [0, 1] and topicSimilarity(A, A) is 1, for scores
\* that are not negative
C25_QuotientAndIdentity ==
  TopicsCalled =>
    /\ QuotientOfSums
    /\ (TopicsA # <<>> /\ TopicsB = TopicsA) => ret.value = <<1, 1>>

\* C25 amended: as stated when the sum of A's scores is positive; when all of
\* A's scores are 0 the result is 0, topicSimilarity(A, A) included
C25_QuotientOfPositiveTotal ==
  TopicsCalled =>
    /\ QuotientOfSums
    /\ (TopicsA # <<>> /\ TopicsB = TopicsA /\ TotalOfA > 0) => ret.value = <<1, 1>>
    /\ TotalOfA = 0 => ret.value = RZero

\* two terms of A, one of them in B with a smaller score: the result is 1/3
C25_Witness ==
  /\ TopicsCalled /\ Len(TopicsA) = 2 /\ TotalOfA = 3 /\ MatchedOfA = 1
  /\ ret.value = <<1, 3>>

(***************************************************************************)
(* Properties of the POST /api/recommendations handler                     *)
(***************************************************************************)
\* the catalog answered with nothing, or the call failed
NothingOrFailure(response) ==
  response.kind \in {"throw", "noData", "noList"} \/ Len(response.results) = 0

\* the handler has finished a request for which it called getCandidatePodcasts,
\* every catalog call of which returned nothing or failed
CatalogGaveNothing ==
  /\ hpc = "done" /\ cpc = "done"
  /\ \A i \in DOMAIN callLog : NothingOrFailure(callLog[i].response)

\* C26: when every catalog call of a request returns nothing or fails,
\* getCandidatePodcasts returns the empty list without raising and the handler
\* sends exactly one response, with an empty recommendations list, does not call
\* generateRecommendations and forwards no error
C26_EmptyStateOnCatalogFailure ==
  /\ Len(responses) + forwarded <= 1
  /\ CatalogGaveNothing =>
       /\ uniqueCandidates = <<>> /\ ~collectRaised
       /\ Len(responses) = 1 /\ responses[1].recommendations = <<>>
       /\ recommendCalls = 0 /\ providerCalls = 0
       /\ forwarded = 0

\* the catalog failed on one call and answered the others with nothing, and the
\* handler sent its one response
C26_Witness ==
  /\ CatalogGaveNothing /\ Len(callLog) >= 3
  /\ \E i, j \in DOMAIN callLog :
       callLog[i].response.kind = "throw" /\ callLog[j].response.kind = "noData"
  /\ Len(responses) = 1 /\ responses[1].status = 404

\* every entry of the cache is the vector the provider gave for the text of a
\* call whose first 100 characters are the entry's key: not empty, and never
\* the fallback of 384 zeros
CacheHoldsProviderVectors ==
  \A key \in DOMAIN embeddingCache :
    /\ Len(embeddingCache[key]) > 0
    /\ embeddingCache[key] # ZeroVector
    /\ \E k \in DOMAIN embedCalls :
         /\ embedCalls[k].requested /\ embedCalls[k].stored
         /\ KeyOf(k) = key
         /\ embeddingCache[key] = OwnVector(k)

\* a call that returns without a valid response of the provider (its request
\* failed or was answered with something malformed, it found the vector in the
\* cache, or its text was empty) leaves the cache as it is
FallbackLeavesCache ==
  (\E k \in DOMAIN embedCalls' :
     /\ embedCalls'[k].order > 0 /\ ~embedCalls'[k].stored
     /\ (k \in DOMAIN embedCalls => embedCalls[k].order = 0))
  => embeddingCache' = embeddingCache

\* C27: after any sequence of embed calls every cache entry is a non-empty array
\* the provider returned for a text that starts with the entry's key; a failed,
\* malformed or empty-text call leaves the cache unchanged, so the zero
\* fallback vector is never cached
C27_OnlyProviderVectorsCached == [](CacheHoldsProviderVectors) /\ [][FallbackLeavesCache]_vars

\* a call stored its vector, a call on the same prefix failed and returned the
\* fallback, and a call had an empty text: the cache has the one entry
C27_Witness ==
  /\ Cardinality(DOMAIN embeddingCache) = 1
  /\ \E i, j, k \in DOMAIN embedCalls :
       /\ embedCalls[i].stored
       /\ embedCalls[j].requested /\ embedCalls[j].order > 0 /\ ~embedCalls[j].stored
       /\ embedCalls[j].value = ZeroVector /\ KeyOf(j) = KeyOf(i)
       /\ embedCalls[k].text = "" /\ embedCalls[k].value = ZeroVector

\* C28: every recommendation's podcast is an element of the candidates given, no
\* position of that list being used twice, and its most_similar_to is the id of
\* one of the favourites given
C28_FromTheInputs ==
  /\ \A r \in DOMAIN result :
       /\ result[r].candIdx \in DOMAIN candidates.items
       /\ result[r].podcast = candidates.items[result[r].candIdx]
       /\ \E f \in DOMAIN favorites.items : result[r].most_similar_to = favorites.items[f].id
  /\ \A r, q \in DOMAIN result : r # q => result[r].candIdx # result[q].candIdx

\* two recommendations were returned, matched with two different favourites
C28_Witness ==
  /\ Returned /\ Len(result) = 2
  /\ result[1].candIdx # result[2].candIdx
  /\ result[1].most_similar_to # result[2].most_similar_to

(***************************************************************************)
(* Properties of the podcast router                                        *)
(***************************************************************************)
\* C29 as stated: on the podcast router a GET to /genres is handled by the
\* genres handler (catalog request /genres) and a GET to /trending by the
\* trending handler (catalog request /best_podcasts); neither is handled by the
\* /:id handler registered before them
C29_GenresAndTrendingHandled ==
  /\ (getRequest.path = "/genres" /\ handledBy # "none")
       => handledBy = "genres" /\ catalogRequest = "/genres"
  /\ (getRequest.path = "/trending" /\ handledBy # "none")
       => /\ handledBy = "trending"
          /\ SubSeq(catalogRequest, 1, 14) = "/best_podcasts"
  /\ getRequest.path \in {"/genres", "/trending"} => handledBy # "details"

(***************************************************************************)
(* Properties of the recommendations page                                  *)
(***************************************************************************)
\* C30 as stated: the progress-message timer is stopped once the request
\* finishes, whether it succeeds or fails: while no request is pending no timer
\* is active, and once loading is back to false processingStage is empty
C30_TimerStoppedWhenFinished ==
  /\ ~posting => \A t \in DOMAIN timers : ~timers[t].active
  /\ ~loading => processingStage = ""
====
